---- MODULE Spec2Model ----
(***************************************************************************)
(* Study-guide generation pipeline of BoringCourse:                        *)
(*   - Topic Scope Builder      (defaultGuide, study-guide/route.ts)       *)
(*   - Output Normalizer        (normalizeGuide, study-guide/route.ts)     *)
(*   - Guide Generation handler (POST, study-guide/route.ts)               *)
(*   - Focus Scorer             (buildFocusRecommendations, insights.ts)   *)
(* JavaScript values are modelled as tagged records, strings as TLA+       *)
(* strings (sequences of characters).                                      *)
(***************************************************************************)
EXTENDS Integers, Sequences, FiniteSets, TLC

VARIABLES
    nPc, candidate, fallback, normalized,      \* Output Normalizer run
    gPc, request, gFallback, modelReply, generatedRaw, response, modelCalls, \* POST handler run
    sPc, sBody, topics,                        \* Topic Scope Builder run
    fPc, courses, assignmentsByCourse, recommendations, gradeSignals, \* Focus Scorer run
    ePc, eRequest, eCourses, eCourse, eQuizzes, eAssignments, eTarget, eQuizDetails, eGrades,
    eResponse, canvasCalls, \* Evidence Gatherer run
    lPc, lDoc, lPrompt, lGuide, \* Legacy Projection run
    bPc, bCourseIds, bFetches, bOrder, bAll, bMap, bResponse, \* batch fetch of assignments (overview GET)
    pPc, pPages, pNextUrl, pInFlight, pRequested, pReceived, pAll, pResult   \* paginated fetch (fetchAllPages)

nVars == <<nPc, candidate, fallback, normalized>>
gVars == <<gPc, request, gFallback, modelReply, generatedRaw, response, modelCalls>>
sVars == <<sPc, sBody, topics>>
fVars == <<fPc, courses, assignmentsByCourse, recommendations, gradeSignals>>
eVars == <<ePc, eRequest, eCourses, eCourse, eQuizzes, eAssignments, eTarget, eQuizDetails, eGrades,
           eResponse, canvasCalls>>
lVars == <<lPc, lDoc, lPrompt, lGuide>>
bVars == <<bPc, bCourseIds, bFetches, bOrder, bAll, bMap, bResponse>>
pVars == <<pPc, pPages, pNextUrl, pInFlight, pRequested, pReceived, pAll, pResult>>
vars == <<nVars, gVars, sVars, fVars, eVars, lVars, bVars, pVars>>

-----------------------------------------------------------------------------
(* Strings: String.prototype methods used by the code.                     *)

UpperChars == "ABCDEFGHIJKLMNOPQRSTUVWXYZ"
LowerChars == "abcdefghijklmnopqrstuvwxyz"
DigitChars == "0123456789"
WhitespaceChars == {" ", "\t", "\n"}

Ch(s, i) == SubSeq(s, i, i)

InChars(c, alphabet) == \E i \in 1..Len(alphabet) : Ch(alphabet, i) = c

PosIn(c, alphabet) == CHOOSE i \in 1..Len(alphabet) : Ch(alphabet, i) = c

lowerChar(c) == IF InChars(c, UpperChars) THEN Ch(LowerChars, PosIn(c, UpperChars)) ELSE c

upperChar(c) == IF InChars(c, LowerChars) THEN Ch(UpperChars, PosIn(c, LowerChars)) ELSE c

RECURSIVE toLowerCase(_)
toLowerCase(s) ==
    IF Len(s) = 0 THEN "" ELSE lowerChar(Ch(s, 1)) \o toLowerCase(SubSeq(s, 2, Len(s)))

RECURSIVE trimStart(_)
trimStart(s) ==
    IF Len(s) > 0 /\ Ch(s, 1) \in WhitespaceChars THEN trimStart(SubSeq(s, 2, Len(s))) ELSE s

RECURSIVE trimEnd(_)
trimEnd(s) ==
    IF Len(s) > 0 /\ Ch(s, Len(s)) \in WhitespaceChars THEN trimEnd(SubSeq(s, 1, Len(s) - 1)) ELSE s

trim(s) == trimEnd(trimStart(s))

includes(s, p) == \E i \in 1..(Len(s) - Len(p) + 1) : SubSeq(s, i, i + Len(p) - 1) = p

\* [A-Za-z0-9_], the regex class \w
isWordChar(c) == InChars(c, UpperChars) \/ InChars(c, LowerChars) \/ InChars(c, DigitChars) \/ c = "_"

\* /\bw\b/.test(s) for a literal w that starts and ends with a word character
testWord(s, w) ==
    \E i \in 1..(Len(s) - Len(w) + 1) :
        /\ SubSeq(s, i, i + Len(w) - 1) = w
        /\ (i = 1 \/ ~isWordChar(Ch(s, i - 1)))
        /\ (i + Len(w) - 1 = Len(s) \/ ~isWordChar(Ch(s, i + Len(w))))

\* s.replace(/[^a-z0-9\s]/g, " ").split(/\s+/): the maximal runs of [a-z0-9]
\* (the empty strings split() also yields are dropped by every caller's length filter)
RECURSIVE splitAlnum(_, _, _)
splitAlnum(s, cur, acc) ==
    IF Len(s) = 0 THEN (IF Len(cur) = 0 THEN acc ELSE Append(acc, cur))
    ELSE LET c == Ch(s, 1)
             rest == SubSeq(s, 2, Len(s))
         IN IF InChars(c, LowerChars) \/ InChars(c, DigitChars)
            THEN splitAlnum(rest, cur \o c, acc)
            ELSE splitAlnum(rest, "", IF Len(cur) = 0 THEN acc ELSE Append(acc, cur))

\* Array.from(new Set(seq)): first occurrences, in order
RECURSIVE uniq(_)
uniq(seq) ==
    IF Len(seq) = 0 THEN <<>>
    ELSE LET r == uniq(SubSeq(seq, 1, Len(seq) - 1))
             x == seq[Len(seq)]
         IN IF \E i \in 1..Len(r) : r[i] = x THEN r ELSE Append(r, x)

\* Array.prototype.slice(0, n)
slice0(seq, n) == SubSeq(seq, 1, IF Len(seq) < n THEN Len(seq) ELSE n)

\* Array.prototype.join(sep) over strings
RECURSIVE join(_, _)
join(seq, sep) ==
    IF Len(seq) = 0 THEN ""
    ELSE IF Len(seq) = 1 THEN seq[1]
    ELSE join(SubSeq(seq, 1, Len(seq) - 1), sep) \o sep \o seq[Len(seq)]

-----------------------------------------------------------------------------
(* JavaScript values.  Every value carries the same fields so that any two *)
(* can be compared: t is the type tag, s a string's text, n a number's     *)
(* value (a boolean's 0/1), a an array's elements, o an object's           *)
(* properties (a function from property names to values).                  *)

NoProps == [k \in {} |-> 0]

JUndefined == [t |-> "undefined", s |-> "", n |-> 0, a |-> <<>>, o |-> NoProps]
JNull == [t |-> "null", s |-> "", n |-> 0, a |-> <<>>, o |-> NoProps]
JNaN == [t |-> "NaN", s |-> "", n |-> 0, a |-> <<>>, o |-> NoProps]
JStr(v) == [t |-> "string", s |-> v, n |-> 0, a |-> <<>>, o |-> NoProps]
JNum(v) == [t |-> "number", s |-> "", n |-> v, a |-> <<>>, o |-> NoProps]
JBool(v) == [t |-> "boolean", s |-> "", n |-> IF v THEN 1 ELSE 0, a |-> <<>>, o |-> NoProps]
JArr(v) == [t |-> "array", s |-> "", n |-> 0, a |-> v, o |-> NoProps]
JObj(v) == [t |-> "object", s |-> "", n |-> 0, a |-> <<>>, o |-> v]

\* the marker of a run that ended in a thrown TypeError instead of a value
TypeError == [t |-> "TypeError", s |-> "", n |-> 0, a |-> <<>>, o |-> NoProps]

isNullish(v) == v.t \in {"undefined", "null"}

\* Boolean(v)
truthy(v) ==
    CASE v.t \in {"undefined", "null", "NaN"} -> FALSE
      [] v.t = "string" -> Len(v.s) > 0
      [] v.t \in {"number", "boolean"} -> v.n # 0
      [] OTHER -> TRUE

\* v[k] for a v that is not null or undefined (that access throws) and a k
\* that names no built-in member of strings, numbers or arrays
Get(v, k) == IF v.t = "object" /\ k \in DOMAIN v.o THEN v.o[k] ELSE JUndefined

\* a ?? b
Coalesce(a, b) == IF isNullish(a) THEN b ELSE a

\* the own enumerable properties { ...v } copies
Spread(v) ==
    CASE v.t = "object" -> v.o
      [] v.t = "array" -> [k \in {ToString(i - 1) : i \in 1..Len(v.a)} |->
                              v.a[CHOOSE i \in 1..Len(v.a) : ToString(i - 1) = k]]
      [] v.t = "string" -> [k \in {ToString(i - 1) : i \in 1..Len(v.s)} |->
                              JStr(Ch(v.s, CHOOSE i \in 1..Len(v.s) : ToString(i - 1) = k))]
      [] OTHER -> NoProps

\* { ...f, ...g } on property functions
Merge(f, g) == [k \in DOMAIN f \cup DOMAIN g |-> IF k \in DOMAIN g THEN g[k] ELSE f[k]]

\* Array.prototype.map
MapSeq(seq, F(_)) == [i \in 1..Len(seq) |-> F(seq[i])]

\* Array.prototype.map with the index (0-based, as the callback sees it)
MapSeqIdx(seq, F(_, _)) == [i \in 1..Len(seq) |-> F(seq[i], i - 1)]

-----------------------------------------------------------------------------
(* Topic Scope Builder: study-guide/route.ts                               *)

BadgeConfirmed == "Confirmed on test"
BadgeLikely == "Likely on test"
BadgeMayNot == "May not be on test"
Badges == {BadgeConfirmed, BadgeLikely, BadgeMayNot}

TopicStopWords ==
    {"i", "need", "help", "with", "the", "a", "an", "for", "to", "on", "and", "of", "my",
     "quiz", "test", "study", "guide", "make", "create", "build", "please", "me", "what",
     "should", "could", "would", "can", "how", "when", "where", "why", "which", "tell"}

MaxTopicTokens == 10

extractTopicTokens(question) ==
    slice0(uniq(SelectSeq(splitAlnum(toLowerCase(question), "", <<>>),
                          LAMBDA token : Len(token) > 2 /\ token \notin TopicStopWords)),
           MaxTopicTokens)

JunkWords ==
    {"what", "should", "could", "would", "can", "how", "when", "where", "why", "which",
     "make", "create", "build", "study", "guide", "quiz", "test"}

\* a filter that would compare without lower-casing
isJunkTopicCaseSensitive(value) ==
    Len(trim(value)) = 0 \/ trim(value) \in JunkWords

isJunkTopic(value) ==
    LET normalized_ == toLowerCase(trim(value))
    IN IF Len(normalized_) = 0 THEN TRUE ELSE normalized_ \in JunkWords

wantsQuadraticsIn(text) ==
    \/ testWord(text, "quadratic") \/ testWord(text, "quadratics")
    \/ testWord(text, "qudartic") \/ testWord(text, "qudratic")

extractPromptConcepts(prompt) ==
    LET text == toLowerCase(prompt)
    IN uniq(
        (IF wantsQuadraticsIn(text) THEN <<"Quadratic functions">> ELSE <<>>)
     \o (IF testWord(text, "vertex") THEN <<"Vertex and axis of symmetry">> ELSE <<>>)
     \o (IF testWord(text, "factor") \/ testWord(text, "factoring")
            THEN <<"Factoring quadratics">> ELSE <<>>)
     \o (IF testWord(text, "complete the square") \/ testWord(text, "completeing the square")
            THEN <<"Completing the square">> ELSE <<>>)
     \o (IF testWord(text, "quadratic formula") THEN <<"Quadratic formula">> ELSE <<>>)
     \o (IF testWord(text, "discriminant") THEN <<"Discriminant and number of roots">> ELSE <<>>)
     \o (IF testWord(text, "complex") THEN <<"Complex roots">> ELSE <<>>))

inferLikelyTopics(courseName, prompt) ==
    LET text == toLowerCase(courseName \o " " \o prompt)
        wantsQuadratics == wantsQuadraticsIn(text)
    IN IF includes(text, "algebra 1") \/ includes(text, "algebra i")
       THEN <<"Linear equations", "Systems of equations", "Exponents and polynomials">>
       ELSE IF includes(text, "algebra 2") \/ includes(text, "algebra ii")
       THEN IF wantsQuadratics
            THEN <<"Quadratic functions", "Graphing parabolas", "Factoring quadratics",
                   "Completing the square", "Quadratic formula and discriminant">>
            ELSE <<"Quadratic functions", "Polynomial operations", "Rational expressions">>
       ELSE IF includes(text, "chem") \/ includes(text, "chemistry")
       THEN <<"Stoichiometry", "Chemical reactions", "Gas laws">>
       ELSE IF includes(text, "biology") \/ includes(text, "bio")
       THEN <<"Cell processes", "Genetics", "Ecology interactions">>
       ELSE IF includes(text, "history") \/ includes(text, "government") \/ includes(text, "civics")
       THEN <<"Key terms and events", "Cause and effect analysis", "Source evidence usage">>
       ELSE <<"Core vocabulary", "Primary problem types", "Common assessment patterns">>

pickBadge(hasDirectEvidence, hasContextEvidence) ==
    IF hasDirectEvidence THEN BadgeConfirmed
    ELSE IF hasContextEvidence THEN BadgeLikely
    ELSE BadgeMayNot

(* The parsed request body (requestSchema, with its defaults applied):     *)
(*   selectedCourse      [present, hasId, id, name]                        *)
(*   userPrompt          [present, text]                                   *)
(*   selectedUnits       sequence of strings                               *)
(*   selectedAssignments sequence of [name, conceptHint, hasScore,         *)
(*                       submissionScore, hasPoints, pointsPossible]       *)
(*                       (conceptHint "" when the hint is absent)          *)
(*   uploadedMaterials   sequence of [title, content]                      *)

MaxTopics == 8

promptText(b) == IF b.userPrompt.present THEN b.userPrompt.text ELSE ""

courseNameOrEmpty(b) == IF b.selectedCourse.present THEN b.selectedCourse.name ELSE ""

\* a.conceptHint || a.name
hintOrName(a) == IF Len(a.conceptHint) > 0 THEN a.conceptHint ELSE a.name

explicitConcepts(b) ==
    SelectSeq(MapSeq(b.selectedAssignments, hintOrName), LAMBDA x : Len(x) > 0)

capitalizeWords(token) ==
    IF Len(token) = 0 THEN "" ELSE upperChar(Ch(token, 1)) \o SubSeq(token, 2, Len(token))

promptTopicsOf(b, topicTokens) ==
    LET promptConcepts == extractPromptConcepts(promptText(b))
    IN IF Len(promptConcepts) > 0 THEN promptConcepts ELSE MapSeq(topicTokens, capitalizeWords)

\* a list that would not be cut
baseTopicsUncapped(b, topicTokens) ==
    SelectSeq(MapSeq(uniq(explicitConcepts(b) \o b.selectedUnits \o promptTopicsOf(b, topicTokens)
                          \o inferLikelyTopics(courseNameOrEmpty(b), promptText(b))),
                     trim),
              LAMBDA topic : ~isJunkTopic(topic))

baseTopicsOf(b, topicTokens) ==
    LET inferred == inferLikelyTopics(courseNameOrEmpty(b), promptText(b))
    IN slice0(SelectSeq(MapSeq(uniq(explicitConcepts(b) \o b.selectedUnits
                                    \o promptTopicsOf(b, topicTokens) \o inferred),
                               trim),
                        LAMBDA topic : ~isJunkTopic(topic)),
              MaxTopics)

hasDirectEvidence(b, topic) ==
    LET topicLower == toLowerCase(topic)
        explicit == explicitConcepts(b)
    IN \/ \E i \in 1..Len(b.selectedAssignments) :
              includes(toLowerCase(b.selectedAssignments[i].name), topicLower)
       \/ \E i \in 1..Len(explicit) : toLowerCase(explicit[i]) = topicLower

hasContextEvidence(b, topicTokens, topic) ==
    LET topicLower == toLowerCase(topic)
    IN \/ \E i \in 1..Len(b.selectedUnits) : includes(toLowerCase(b.selectedUnits[i]), topicLower)
       \/ \E i \in 1..Len(topicTokens) : includes(topicLower, topicTokens[i])

buildTopic(b, topicTokens, topic) ==
    LET badge == pickBadge(hasDirectEvidence(b, topic), hasContextEvidence(b, topicTokens, topic))
    IN JObj([topic |-> JStr(topic),
             badge |-> JStr(badge),
             why_included |-> JStr(
                 IF badge = BadgeConfirmed
                 THEN "Directly supported by selected assignments or explicit course evidence."
                 ELSE IF badge = BadgeLikely
                 THEN "Strongly inferred from units/context near the assessment window."
                 ELSE "Included for complete prep based on common curriculum patterns."),
             evidence |-> JArr(<<JObj([
                 from |-> JStr(IF badge = BadgeConfirmed THEN "assignment"
                               ELSE IF badge = BadgeLikely THEN "module" ELSE "inference"),
                 note |-> JStr(
                     IF badge = BadgeConfirmed
                     THEN "Matched assignment/concept naming from selected coursework."
                     ELSE IF badge = BadgeLikely
                     THEN "Aligned with current units or user-requested topic wording."
                     ELSE "Commonly assessed in this course level even without explicit Canvas confirmation.")])>>)])

\* the Topic[] of defaultGuide (lines 304-344)
buildTopics(b, topicTokens) ==
    MapSeq(baseTopicsOf(b, topicTokens), LAMBDA topic : buildTopic(b, topicTokens, topic))

TopicLabel(topic) == topic.o.topic.s
TopicBadge(topic) == topic.o.badge.s

JStrs(seq) == JArr(MapSeq(seq, JStr))

\* score / ((points ?? 1) || 1) < 0.8 on integers
belowEighty(a) ==
    LET points == IF a.pointsPossible = 0 THEN 1 ELSE a.pointsPossible
    IN IF points > 0 THEN 5 * a.submissionScore < 4 * points
                     ELSE 5 * a.submissionScore > 4 * points

weakTopicsOf(b) ==
    slice0(MapSeq(SelectSeq(b.selectedAssignments,
                            LAMBDA a : a.hasScore /\ a.hasPoints /\ belowEighty(a)),
                  hintOrName),
           4)

\* body.userPrompt?.trim() || dflt
promptOr(b, dflt) ==
    IF b.userPrompt.present /\ Len(trim(b.userPrompt.text)) > 0
    THEN JStr(trim(b.userPrompt.text)) ELSE dflt

courseIdOf(b) ==
    IF b.selectedCourse.present /\ b.selectedCourse.hasId
    THEN JStr(ToString(b.selectedCourse.id)) ELSE JNull

courseNameOf(b) == IF b.selectedCourse.present THEN JStr(b.selectedCourse.name) ELSE JNull

labelsWithBadge(ts, badge) ==
    LET hit == MapSeq(SelectSeq(ts, LAMBDA x : TopicBadge(x) = badge), TopicLabel)
    IN IF Len(hit) = 0 THEN "None" ELSE join(hit, ", ")

UnknownFormat == [mcq |-> JStr("unknown"), free_response |-> JStr("unknown"), graphing |-> JStr("unknown")]

NAChoices == JStrs(<<"A N/A", "B N/A", "C N/A", "D N/A">>)

defaultSections(ts) ==
    <<JObj([id |-> JStr("must_know_map"),
            title |-> JStr("What to Know (Mapped to Your Quiz)"),
            items |-> JArr(MapSeq(slice0(ts, 5), LAMBDA x : JObj([
                topic |-> x.o.topic,
                badge |-> x.o.badge,
                key_ideas |-> JStrs(<<"Core rule for " \o TopicLabel(x), "When to apply " \o TopicLabel(x)>>),
                can_you_do |-> JStrs(<<"Solve one standard " \o TopicLabel(x) \o " item",
                                       "Explain why your method is valid">>),
                common_mistake |-> JStr("Choosing the wrong approach for " \o TopicLabel(x) \o "."),
                fix |-> JStr("Identify question type first, then apply one method step-by-step.")])))]),
      JObj([id |-> JStr("diagnostic"),
            title |-> JStr("Diagnostic (8 minutes)"),
            instructions |-> JStr("Use mixed items; if format is unknown, prioritize free response with one MCQ check."),
            questions |-> JArr(MapSeqIdx(slice0(ts, 4), LAMBDA x, index : JObj([
                q |-> JStr(TopicLabel(x) \o ": solve one representative quiz-style problem and justify each step."),
                topic |-> x.o.topic,
                badge |-> x.o.badge,
                type |-> JStr(IF index % 2 = 0 THEN "free_response" ELSE "mcq"),
                choices |-> IF index % 2 = 0 THEN NAChoices
                            ELSE JStrs(<<"A Option 1", "B Option 2", "C Option 3", "D Option 4">>),
                answer |-> JStr(IF index % 2 = 0 THEN "See worked steps" ELSE "A"),
                solution_steps |-> JStrs(<<"Identify what is being asked", "Set up the method", "Solve and verify result">>),
                if_wrong_then |-> JStr("Go to practice_sets and redo the matching topic set.")]))),
            routing_rule |-> JStr("If you miss 2+ questions in a topic, start with that topic's practice set before mixed review.")]),
      JObj([id |-> JStr("practice_sets"),
            title |-> JStr("Practice Sets (with Answers)"),
            sets |-> JArr(MapSeqIdx(slice0(ts, 4), LAMBDA x, index : JObj([
                set_id |-> JStr("ps" \o ToString(index + 1)),
                topic |-> x.o.topic,
                badge |-> x.o.badge,
                skills_tested |-> JStrs(<<"Method selection for " \o TopicLabel(x), "Accurate execution", "Error checking">>),
                difficulty_mix |-> JStr("2 easy, 2 medium, 1 hard"),
                problems |-> JArr(<<
                    JObj([prompt |-> JStr("Easy: apply the basic method for " \o TopicLabel(x) \o "."),
                          type |-> JStr("free_response"),
                          choices |-> NAChoices,
                          answer |-> JStr("Method applied correctly with valid final result."),
                          solution_steps |-> JStrs(<<"Write known information", "Choose method", "Compute and check">>),
                          common_trap |-> JStr("Skipping setup and jumping to arithmetic.")]),
                    JObj([prompt |-> JStr("Medium: solve a multi-step " \o TopicLabel(x) \o " problem with one distractor detail."),
                          type |-> JStr("mcq"),
                          choices |-> JStrs(<<"A", "B", "C", "D">>),
                          answer |-> JStr("B"),
                          solution_steps |-> JStrs(<<"Remove irrelevant detail", "Run full solve path", "Check against choices">>),
                          common_trap |-> JStr("Using all numbers even when some are irrelevant.")])>>),
                mastery_check |-> JObj([
                    pass_rule |-> JStr("At least 4/5 correct and no repeated trap type."),
                    if_fail_do_this |-> JStr("Redo the set with written steps, then complete one additional mixed problem.")])])))]),
      JObj([id |-> JStr("memory_and_speed"),
            title |-> JStr("Memory + Speed Tricks (Only What You Need)"),
            items |-> JArr(MapSeq(slice0(ts, 3), LAMBDA x : JObj([
                topic |-> x.o.topic,
                badge |-> x.o.badge,
                memory_hook |-> JStr("Use a trigger phrase for " \o TopicLabel(x) \o ": 'Identify, Set up, Solve, Check'."),
                speed_tip |-> JStr("Spend first 15 seconds identifying method before calculating."),
                one_min_drill |-> JObj([   \* the property "1_min_drill"
                    prompt |-> JStr("State the method and first step for a " \o TopicLabel(x) \o " question in under 60 seconds."),
                    answer |-> JStr("Method named correctly and first setup step written accurately.")])])))]),
      JObj([id |-> JStr("final_review"),
            title |-> JStr("10-Minute Final Review (Simulated)"),
            timed_set |-> JArr(MapSeq(slice0(ts, 3), LAMBDA x : JObj([
                prompt |-> JStr("Timed: solve one mixed " \o TopicLabel(x) \o " item quickly and show checks."),
                answer |-> JStr("Correct final result with method justification."),
                solution_steps |-> JStrs(<<"Method label", "Key steps", "Final check">>),
                topic |-> x.o.topic,
                badge |-> x.o.badge]))),
            scoring |-> JStr("Score 1 per correct item. If below 80%, redo weakest topic set and repeat one timed item.")])>>

defaultGuide(b, topicTokens) ==
    LET ts == buildTopics(b, topicTokens)
        assignmentNames == MapSeq(b.selectedAssignments, LAMBDA a : a.name)
        weakTopics == weakTopicsOf(b)
        mainTopic == IF Len(ts) > 0 THEN TopicLabel(ts[1]) ELSE "Current course topic"
    IN JObj([
        status |-> JStr("READY"),
        meta |-> JObj([
            course |-> JObj([id |-> courseIdOf(b), name |-> courseNameOf(b), teacher_names |-> JArr(<<>>)]),
            assessment |-> JObj([
                type |-> JStr("unknown"),
                id |-> JNull,
                title |-> promptOr(b, JStr("Upcoming assessment")),
                due_at |-> JNull,
                time_limit_minutes |-> JNull,
                allowed_attempts |-> JNull,
                format |-> JObj(UnknownFormat)]),
            scope_confidence |-> JNum(
                IF \E i \in 1..Len(ts) : TopicBadge(ts[i]) = BadgeConfirmed THEN 80
                ELSE IF \E i \in 1..Len(ts) : TopicBadge(ts[i]) = BadgeLikely THEN 68 ELSE 55),
            assumptions |-> JStrs(
                (IF Len(b.selectedAssignments) = 0
                 THEN <<"No graded assignment evidence provided, so topic breadth was inferred.">> ELSE <<>>)
             \o (IF Len(b.selectedUnits) = 0
                 THEN <<"No unit metadata supplied; used course-level curriculum patterns.">> ELSE <<>>)),
            sources_used |-> JObj([
                modules |-> JStrs(slice0(b.selectedUnits, 12)),
                assignments |-> JStrs(slice0(assignmentNames, 12)),
                quizzes |-> JArr(<<>>),
                pages |-> JArr(<<>>),
                files |-> JStrs(slice0(MapSeq(b.uploadedMaterials, LAMBDA m : m.title), 12)),
                announcements |-> JArr(<<>>),
                grade_signals_used |-> JBool(Len(weakTopics) > 0)])]),
        scope_lock |-> JObj([topics |-> JArr(ts), out_of_scope_topics |-> JArr(<<>>)]),
        study_guide |-> JObj([
            overview |-> JObj([
                test_ready_definition |-> JStr("You can solve " \o mainTopic
                    \o " problems accurately, explain each step, and avoid repeated mistake patterns under time pressure."),
                estimated_total_minutes |-> JNum(75),
                if_you_have_20_min |-> JStrs(<<"Run diagnostic Q1-Q2", "Review one " \o mainTopic \o " mistake type",
                                               "Do one timed correction">>),
                if_you_have_45_min |-> JStrs(<<"Complete full diagnostic", "Do one practice set with solution check",
                                               "Fix one repeated trap">>),
                if_you_have_75_min |-> JStrs(<<"Diagnostic + two practice sets", "Complete memory/speed drill",
                                               "Run final 10-minute simulation">>)]),
            sections |-> JArr(defaultSections(ts))]),
        checklist |-> JObj([
            items |-> JArr(MapSeqIdx(slice0(ts, 5), LAMBDA x, index : JObj([
                id |-> JStr("c" \o ToString(index + 1)),
                task |-> JStr("Complete one full " \o TopicLabel(x) \o " set and explain one mistake you corrected."),
                badge |-> x.o.badge,
                done_when |-> JStr("You score at least 4/5 on that set and can verbalize the corrected error pattern."),
                linked_section_id |-> JStr("ps" \o ToString(IF index + 1 < 4 THEN index + 1 ELSE 4))])))]),
        tutor_handoff |-> JObj([
            button_label |-> JStr("Open Tutor with this guide"),
            brief |-> JStr(join(<<
                "- Assessment: " \o promptOr(b, JStr("Upcoming assessment")).s,
                "- Confirmed topics: " \o labelsWithBadge(ts, BadgeConfirmed),
                "- Likely topics: " \o labelsWithBadge(ts, BadgeLikely),
                "- May not be on test: " \o labelsWithBadge(ts, BadgeMayNot),
                "- Weak areas: " \o (IF Len(weakTopics) = 0 THEN "No strong weakness signal"
                                     ELSE join(weakTopics, ", "))>>, "\n")),
            context |-> JObj([
                course |-> JObj([id |-> courseIdOf(b), name |-> courseNameOf(b)]),
                assessment |-> JObj([type |-> JStr("unknown"), id |-> JNull,
                                     title |-> promptOr(b, JNull), due_at |-> JNull]),
                topics |-> JArr(MapSeq(ts, LAMBDA x : JObj([topic |-> x.o.topic, badge |-> x.o.badge]))),
                quiz_style |-> JObj(Merge(UnknownFormat, [time_limit_minutes |-> JNull])),
                practice_blueprints |-> JArr(MapSeq(slice0(ts, 4), LAMBDA x : JObj([
                    topic |-> x.o.topic,
                    badge |-> x.o.badge,
                    difficulty_mix |-> JStr("2 easy, 2 medium, 1 hard"),
                    common_traps |-> JStrs(<<"Wrong method selection", "Skipping step checks">>),
                    preferred_question_types |-> JStrs(<<"free_response", "mcq">>)]))),
                materials |-> JObj([
                    module_items |-> JArr(MapSeq(b.selectedUnits, LAMBDA title :
                        JObj([title |-> JStr(title), type |-> JStr("module"), url |-> JStr("")]))),
                    files |-> JArr(MapSeqIdx(slice0(b.uploadedMaterials, 8), LAMBDA item, index :
                        JObj([title |-> JStr(item.title), id |-> JStr(ToString(index + 1)), url |-> JStr("")]))),
                    pages |-> JArr(<<>>),
                    announcements |-> JArr(<<>>)])]),
            suggested_quick_actions |-> JArr(<<
                JObj([id |-> JStr("practice"), label |-> JStr("Practice"),
                      prefill_user_message_template |->
                          JStr("Give me quiz-style practice on {selected_topics} with answers and brief feedback.")]),
                JObj([id |-> JStr("explain"), label |-> JStr("Explain"),
                      prefill_user_message_template |->
                          JStr("Explain {selected_topics} step-by-step with one worked example and one check-for-understanding.")]),
                JObj([id |-> JStr("memorize"), label |-> JStr("Memorize"),
                      prefill_user_message_template |->
                          JStr("Give me memory tips for {selected_topics} plus a short recall drill.")])>>)]),
        ui_hints |-> JObj([
            topic_chips |-> JStrs(MapSeq(ts, TopicLabel)),
            default_selected_topics |-> JStrs(MapSeq(slice0(ts, 3), TopicLabel)),
            recommended_time_buttons |-> JArr(<<JNum(20), JNum(45), JNum(75)>>)])])

-----------------------------------------------------------------------------
(* Output Normalizer: study-guide/route.ts                                 *)

safeArray(value, fallback_) == IF value.t = "array" THEN value.a ELSE fallback_

\* a coercion that would let any string through
normalizeBadgeKeepsStrings(value) ==
    IF value.t = "string" THEN value ELSE JStr(BadgeLikely)

normalizeBadge(value) ==
    IF value.t = "string" /\ value.s \in Badges THEN value ELSE JStr(BadgeLikely)

\* Number(v) for the values a JSON document can hold
RECURSIVE digitsValue(_)
digitsValue(s) ==
    IF Len(s) = 0 THEN 0
    ELSE 10 * digitsValue(SubSeq(s, 1, Len(s) - 1)) + (PosIn(Ch(s, Len(s)), DigitChars) - 1)

isDigits(s) == Len(s) > 0 /\ \A i \in 1..Len(s) : InChars(Ch(s, i), DigitChars)

stringToNumber(s) ==
    LET x == trim(s)
    IN IF Len(x) = 0 THEN JNum(0)
       ELSE IF isDigits(x) THEN JNum(digitsValue(x))
       ELSE IF Ch(x, 1) = "-" /\ isDigits(SubSeq(x, 2, Len(x))) THEN JNum(0 - digitsValue(SubSeq(x, 2, Len(x))))
       ELSE JNaN

toNumber(v) ==
    CASE v.t \in {"number", "boolean"} -> JNum(v.n)
      [] v.t = "null" -> JNum(0)
      [] v.t = "string" -> stringToNumber(v.s)
      [] v.t = "array" /\ Len(v.a) = 0 -> JNum(0)
      [] v.t = "array" /\ Len(v.a) = 1 /\ v.a[1].t \in {"number", "string", "null"} ->
            IF v.a[1].t = "number" THEN v.a[1] ELSE stringToNumber(v.a[1].s)
      [] OTHER -> JNaN

\* the record a candidate property is read as: (x as Record | undefined) ?? {}
orEmpty(v) == Coalesce(v, JObj(NoProps))

\* typeof v === "object"
typeofObject(v) == v.t \in {"object", "array", "null"}

\* a guard without the !candidate test
returnsFallbackTypeofOnly(candidate_) == ~typeofObject(candidate_)

\* line 554: the candidates normalizeGuide returns the fallback for
returnsFallback(candidate_) == ~truthy(candidate_) \/ ~typeofObject(candidate_)

\* lines 604-608: the candidate's topics (the fallback's when it has no list), each
\* with its badge coerced and its evidence made a list
mergedTopics(scopeObj, fallback_) ==
    MapSeq(safeArray(Get(scopeObj, "topics"), Get(Get(fallback_, "scope_lock"), "topics").a),
           LAMBDA topic : JObj(Merge(Spread(topic),
               [badge |-> normalizeBadge(Get(topic, "badge")),
                evidence |-> JArr(safeArray(Get(topic, "evidence"), <<>>))])))

\* lines 655-661: the topic recovery policy
recoveredTopics(merged, fallback_) ==
    LET fallbackTopics == Get(Get(fallback_, "scope_lock"), "topics").a
        first == IF Len(merged) = 0 THEN fallbackTopics ELSE merged
        kept == SelectSeq(first, LAMBDA topic : ~isJunkTopic(Get(topic, "topic").s))
    IN IF Len(kept) = 0 THEN SelectSeq(fallbackTopics, LAMBDA topic : ~isJunkTopic(Get(topic, "topic").s)) ELSE kept

\* lines 626-632
mergedChecklistItems(checklistObj, fallback_) ==
    MapSeq(safeArray(Get(checklistObj, "items"), Get(Get(fallback_, "checklist"), "items").a),
           LAMBDA item : JObj(Merge(Spread(item), [badge |-> normalizeBadge(Get(item, "badge"))])))

\* lines 646-652 and 663-669
\* lines 646-652: the candidate's ui_hints over the fallback's
mergedUiHints(uiObj, fallback_) ==
    LET fb == Get(fallback_, "ui_hints")
    IN Merge(Merge(fb.o, Spread(uiObj)),
            [topic_chips |-> JArr(safeArray(Get(uiObj, "topic_chips"), Get(fb, "topic_chips").a)),
             default_selected_topics |->
                 JArr(safeArray(Get(uiObj, "default_selected_topics"), Get(fb, "default_selected_topics").a)),
             recommended_time_buttons |->
                 JArr(safeArray(Get(uiObj, "recommended_time_buttons"), Get(fb, "recommended_time_buttons").a))])

\* ui_hints as merged, the chips not re-derived
uiHintsWithoutChipSync(uiObj, fallback_, finalTopics) == mergedUiHints(uiObj, fallback_)

\* ui_hints whose chips would be added to the merged ones instead of replacing them
normalizedUiHintsAccumulating(uiObj, fallback_, finalTopics) ==
    LET mergedUi == mergedUiHints(uiObj, fallback_)
        chips == SelectSeq(MapSeq(finalTopics, LAMBDA topic : Get(topic, "topic")), truthy)
    IN Merge(mergedUi, [topic_chips |-> JArr(mergedUi.topic_chips.a \o chips)])

\* lines 646-652 and 663-669: the chips are re-derived from the final topics
normalizedUiHints(uiObj, fallback_, finalTopics) ==
    LET mergedUi == mergedUiHints(uiObj, fallback_)
        chips == SelectSeq(MapSeq(finalTopics, LAMBDA topic : Get(topic, "topic")), truthy)
    IN IF Len(chips) > 0
       THEN Merge(mergedUi,
                [topic_chips |-> JArr(chips),
                 default_selected_topics |->
                     IF Len(mergedUi.default_selected_topics.a) = 0
                     THEN JArr(slice0(chips, 3)) ELSE mergedUi.default_selected_topics])
       ELSE mergedUi

\* the property reads and method calls of normalizeGuide that throw a TypeError:
\* obj.meta on null, topic.badge / item.badge on a null entry, value.trim() on a
\* label that is no string
normalizeThrows(candidate_, fallback_) ==
    LET scopeObj == orEmpty(Get(candidate_, "scope_lock"))
        checklistObj == orEmpty(Get(candidate_, "checklist"))
        rawTopics == safeArray(Get(scopeObj, "topics"), Get(Get(fallback_, "scope_lock"), "topics").a)
        rawItems == safeArray(Get(checklistObj, "items"), Get(Get(fallback_, "checklist"), "items").a)
    IN \/ isNullish(candidate_)
       \/ \E i \in 1..Len(rawTopics) : isNullish(rawTopics[i])
       \/ \E i \in 1..Len(rawItems) : isNullish(rawItems[i])
       \/ \E i \in 1..Len(rawTopics) : Get(rawTopics[i], "topic").t # "string"

mergedGuide(candidate_, fallback_) ==
    LET obj == candidate_
        fb == fallback_.o
        metaObj == orEmpty(Get(obj, "meta"))
        assessmentObj == orEmpty(Get(metaObj, "assessment"))
        sourcesObj == orEmpty(Get(metaObj, "sources_used"))
        scopeObj == orEmpty(Get(obj, "scope_lock"))
        studyObj == orEmpty(Get(obj, "study_guide"))
        overviewObj == orEmpty(Get(studyObj, "overview"))
        checklistObj == orEmpty(Get(obj, "checklist"))
        handoffObj == orEmpty(Get(obj, "tutor_handoff"))
        handoffCtxObj == orEmpty(Get(handoffObj, "context"))
        uiObj == orEmpty(Get(obj, "ui_hints"))
        fbSources == fb.meta.o.sources_used.o
        fbOverview == fb.study_guide.o.overview.o
        arr(src, key, dflt) == JArr(safeArray(Get(src, key), dflt[key].a))
        finalTopics == recoveredTopics(mergedTopics(scopeObj, fallback_), fallback_)
    IN JObj(Merge(fb, [
        status |-> JStr("READY"),
        meta |-> JObj(Merge(Merge(fb.meta.o, Spread(metaObj)), [
            course |-> JObj(Merge(fb.meta.o.course.o, Spread(orEmpty(Get(metaObj, "course"))))),
            assessment |-> JObj(Merge(Merge(fb.meta.o.assessment.o, Spread(assessmentObj)), [
                format |-> JObj(Merge(fb.meta.o.assessment.o.format.o,
                                      Spread(orEmpty(Get(assessmentObj, "format")))))])),
            scope_confidence |-> toNumber(Coalesce(Get(metaObj, "scope_confidence"), fb.meta.o.scope_confidence)),
            assumptions |-> arr(metaObj, "assumptions", fb.meta.o),
            sources_used |-> JObj(Merge(Merge(fbSources, Spread(sourcesObj)), [
                modules |-> arr(sourcesObj, "modules", fbSources),
                assignments |-> arr(sourcesObj, "assignments", fbSources),
                quizzes |-> arr(sourcesObj, "quizzes", fbSources),
                pages |-> arr(sourcesObj, "pages", fbSources),
                files |-> arr(sourcesObj, "files", fbSources),
                announcements |-> arr(sourcesObj, "announcements", fbSources)]))])),
        scope_lock |-> JObj(Merge(Merge(fb.scope_lock.o, Spread(scopeObj)), [
            topics |-> JArr(finalTopics),
            out_of_scope_topics |-> arr(scopeObj, "out_of_scope_topics", fb.scope_lock.o)])),
        study_guide |-> JObj(Merge(Merge(fb.study_guide.o, Spread(studyObj)), [
            overview |-> JObj(Merge(Merge(fbOverview, Spread(overviewObj)), [
                if_you_have_20_min |-> arr(overviewObj, "if_you_have_20_min", fbOverview),
                if_you_have_45_min |-> arr(overviewObj, "if_you_have_45_min", fbOverview),
                if_you_have_75_min |-> arr(overviewObj, "if_you_have_75_min", fbOverview)])),
            sections |-> arr(studyObj, "sections", fb.study_guide.o)])),
        checklist |-> JObj(Merge(Merge(fb.checklist.o, Spread(checklistObj)), [
            items |-> JArr(mergedChecklistItems(checklistObj, fallback_))])),
        tutor_handoff |-> JObj(Merge(Merge(fb.tutor_handoff.o, Spread(handoffObj)), [
            context |-> JObj(Merge(fb.tutor_handoff.o.context.o, Spread(handoffCtxObj))),
            suggested_quick_actions |-> arr(handoffObj, "suggested_quick_actions", fb.tutor_handoff.o)])),
        ui_hints |-> JObj(normalizedUiHints(uiObj, fallback_, finalTopics))]))

normalizeGuide(candidate_, fallback_) ==
    IF returnsFallback(candidate_) THEN fallback_
    ELSE IF normalizeThrows(candidate_, fallback_) THEN TypeError
    ELSE mergedGuide(candidate_, fallback_)

-----------------------------------------------------------------------------
(* Legacy Projection: study-guide/route.ts                                 *)

\* s.split(/\s+/) of a trimmed, non-empty s: its whitespace-separated words
RECURSIVE splitWords(_, _, _)
splitWords(s, cur, acc) ==
    IF Len(s) = 0 THEN (IF Len(cur) = 0 THEN acc ELSE Append(acc, cur))
    ELSE LET c == Ch(s, 1)
             rest == SubSeq(s, 2, Len(s))
         IN IF c \in WhitespaceChars
            THEN splitWords(rest, "", IF Len(cur) = 0 THEN acc ELSE Append(acc, cur))
            ELSE splitWords(rest, cur \o c, acc)

GenericTopicWords == {"algebra", "math", "mathematics", "general", "topic", "concept"}

isSpecificTopic(topic) ==
    LET lowered == toLowerCase(trim(topic))
        parts == splitWords(lowered, "", <<>>)
    IN /\ Len(lowered) > 0
       /\ lowered \notin GenericTopicWords
       /\ \E i \in 1..Len(parts) : parts[i] \notin GenericTopicWords

\* sections.find((section) => section.id === id); undefined when none matches
findSection(sections, id) ==
    IF \E i \in 1..Len(sections) : Get(sections[i], "id") = JStr(id)
    THEN sections[CHOOSE i \in 1..Len(sections) :
                      /\ Get(sections[i], "id") = JStr(id)
                      /\ \A j \in 1..(i - 1) : Get(sections[j], "id") # JStr(id)]
    ELSE JUndefined

\* section.id read on a null entry that find() reaches before a match
findThrows(sections, id) ==
    \E i \in 1..Len(sections) :
        /\ isNullish(sections[i])
        /\ \A j \in 1..(i - 1) : Get(sections[j], "id") # JStr(id)

\* (section?.[key] ?? []): the list whose entries' topics are collected
sectionList(section, key) == Coalesce(Get(section, key), JArr(<<>>))

\* .map((item) => item.topic) on a value that is no array, or on a null entry
sectionListThrows(section, key) ==
    LET list == sectionList(section, key)
    IN list.t # "array" \/ \E i \in 1..Len(list.a) : isNullish(list.a[i])

\* .map((item) => item.topic).filter(typeof item === "string" && item.length > 0)
sectionTopics(section, key) ==
    MapSeq(SelectSeq(MapSeq(sectionList(section, key).a, LAMBDA item : Get(item, "topic")),
                     LAMBDA x : x.t = "string" /\ Len(x.s) > 0),
           LAMBDA x : x.s)

toLegacyThrows(generated) ==
    LET sections == generated.o.study_guide.o.sections.a
    IN \/ findThrows(sections, "diagnostic")
       \/ findThrows(sections, "practice_sets")
       \/ findThrows(sections, "final_review")
       \/ sectionListThrows(findSection(sections, "diagnostic"), "questions")
       \/ sectionListThrows(findSection(sections, "practice_sets"), "sets")
       \/ sectionListThrows(findSection(sections, "final_review"), "timed_set")

specificTopicsOf(generated) ==
    LET sections == generated.o.study_guide.o.sections.a
        ts == generated.o.scope_lock.o.topics.a
    IN SelectSeq(uniq(sectionTopics(findSection(sections, "practice_sets"), "sets")
                      \o sectionTopics(findSection(sections, "diagnostic"), "questions")
                      \o sectionTopics(findSection(sections, "final_review"), "timed_set")
                      \o MapSeq(ts, LAMBDA x : Get(x, "topic").s)),
                 isSpecificTopic)

\* a chain that would pass over the raw topic list
primaryTopicSkipsRawTopics(generated, userPrompt) ==
    IF Len(specificTopicsOf(generated)) > 0 THEN specificTopicsOf(generated)[1]
    ELSE IF userPrompt.present THEN trim(userPrompt.text)
    ELSE "current quiz topic"

\* specificTopics[0] ?? topics[0]?.topic ?? userPrompt?.trim() ?? "current quiz topic"
primaryTopicOf(generated, userPrompt) ==
    LET specific == specificTopicsOf(generated)
        ts == generated.o.scope_lock.o.topics.a
    IN IF Len(specific) > 0 THEN specific[1]
       ELSE IF Len(ts) > 0 /\ ~isNullish(Get(ts[1], "topic")) THEN Get(ts[1], "topic").s
       ELSE IF userPrompt.present THEN trim(userPrompt.text)
       ELSE "current quiz topic"

toLegacyGuide(generated, userPrompt) ==
    LET ts == generated.o.scope_lock.o.topics.a
        checklistTasks == MapSeq(generated.o.checklist.o.items.a, LAMBDA item : Get(item, "task"))
        specific == specificTopicsOf(generated)
        primaryTopic == primaryTopicOf(generated, userPrompt)
        secondaryTopic == IF Len(specific) > 1 THEN specific[2]
                          ELSE IF Len(specific) > 0 THEN specific[1] ELSE primaryTopic
        tertiaryTopic == IF Len(specific) > 2 THEN specific[3] ELSE secondaryTopic
        firstLabel == IF Len(ts) > 0 THEN Get(ts[1], "topic") ELSE JUndefined
    IN JObj([
        overview |-> Get(Get(Get(generated, "study_guide"), "overview"), "test_ready_definition"),
        clarificationQuestion |-> JStr(""),
        topicOutline |-> JObj([
            topic |-> IF truthy(firstLabel) THEN firstLabel
                      ELSE IF userPrompt.present /\ Len(trim(userPrompt.text)) > 0
                      THEN JStr(trim(userPrompt.text)) ELSE JStr("Selected topic"),
            concepts |-> JArr(slice0(MapSeq(ts, LAMBDA x : Get(x, "topic")), 8))]),
        plan |-> JArr(<<
            JObj([day |-> JStr("Monday"),
                  tasks |-> JStrs(<<
                      "Run a 10-minute diagnostic on " \o primaryTopic \o " and mark each missed step.",
                      "Complete 6 targeted " \o primaryTopic \o " problems; write 1-line justification per solution.",
                      "Correct your top 2 recurring errors in " \o secondaryTopic \o " and re-solve those items.">>),
                  minutes |-> JNum(45)]),
            JObj([day |-> JStr("Wednesday"),
                  tasks |-> JStrs(<<
                      "Do a timed mixed set: 4 " \o secondaryTopic \o " + 4 " \o tertiaryTopic \o " questions (20 minutes).",
                      "Run a final-review simulation on " \o primaryTopic \o " and " \o secondaryTopic
                          \o "; target >= 80% accuracy.",
                      "Create a mini cheat-sheet of 5 rules/formulas for " \o primaryTopic
                          \o " and self-quiz without notes.">>),
                  minutes |-> JNum(45)])>>),
        priorities |-> JArr(MapSeq(slice0(ts, 3), LAMBDA x : JObj([
            subject |-> JStr(Get(x, "topic").s \o " (" \o Get(x, "badge").s \o ")"),
            reason |-> Get(x, "why_included"),
            action |-> JStr("Do the matching practice set and hit its mastery check for "
                            \o Get(x, "topic").s \o ".")]))),
        checklist |-> IF Len(checklistTasks) > 0 THEN JArr(checklistTasks)
                      ELSE JStrs(<<"Complete one measurable practice set and pass its mastery check">>)])

-----------------------------------------------------------------------------
(* Generative-model client: generateStructured (lib/server/openai.ts, held *)
(* in src/lib/server/types.ts) and safeParseJson (src/lib/server/json.ts). *)
(* A reply of the collaborator is [threw, isJson, value]: the call threw,  *)
(* or returned a text that JSON.parse accepts (value is what it yields,    *)
(* at the first of safeParseJson's attempts that parses) or rejects.       *)

ReplyThrows == [threw |-> TRUE, isJson |-> FALSE, value |-> JUndefined]
ReplyText == [threw |-> FALSE, isJson |-> FALSE, value |-> JUndefined]
ReplyJson(v) == [threw |-> FALSE, isJson |-> TRUE, value |-> v]
NoReply == [threw |-> FALSE, isJson |-> FALSE, value |-> JNull]

\* a falsy parse result (0, false, "", null) is passed over by every attempt
safeParseJson(reply) == IF reply.isJson /\ truthy(reply.value) THEN reply.value ELSE JNull

\* a client that would catch the rejection
generateStructuredSwallows(reply) == FALSE

\* await client.responses.create(...) rejects and generateStructured has no catch
generateStructuredThrows(reply) == reply.threw

\* the value generateStructured resolves to when the call returns: parsed ?? fallback
generateStructured(reply, fallback_) == Coalesce(safeParseJson(reply), fallback_)

-----------------------------------------------------------------------------
(* Inputs.                                                                 *)

NoCourse == [present |-> FALSE, hasId |-> FALSE, id |-> 0, name |-> ""]
CourseNamed(name) == [present |-> TRUE, hasId |-> FALSE, id |-> 0, name |-> name]
Course(id, name) == [present |-> TRUE, hasId |-> TRUE, id |-> id, name |-> name]
NoPrompt == [present |-> FALSE, text |-> ""]
Prompt(text) == [present |-> TRUE, text |-> text]
Assignment(name, hint, score, points) ==
    [name |-> name, conceptHint |-> hint, hasScore |-> TRUE, submissionScore |-> score,
     hasPoints |-> TRUE, pointsPossible |-> points]
UngradedAssignment(name, hint) ==
    [name |-> name, conceptHint |-> hint, hasScore |-> FALSE, submissionScore |-> 0,
     hasPoints |-> FALSE, pointsPossible |-> 0]

Body(course, prompt, units, assignments) ==
    [selectedCourse |-> course, userPrompt |-> prompt, selectedUnits |-> units,
     selectedAssignments |-> assignments, uploadedMaterials |-> <<>>]

\* POST, lines 757-758
fallbackFor(b) == defaultGuide(b, extractTopicTokens(trim(promptText(b))))

\* the requests whose fallback documents the normalizer runs start from
GuideBodies ==
    { Body(Course(7, "Algebra 2"), Prompt("help with quadratics"), <<>>, <<>>),
      Body(Course(3, "Chemistry"), Prompt(" gas laws quiz "), <<"Unit 4: Gas Laws">>,
           <<Assignment("Stoichiometry worksheet", "", 6, 10)>>),
      Body(NoCourse, NoPrompt, <<>>, <<UngradedAssignment("Essay draft", "Thesis statements")>>) }

\* the entries a candidate's scope_lock.topics may hold
GoodTopic == JObj([topic |-> JStr("Vectors"), badge |-> JStr(BadgeConfirmed),
                   why_included |-> JStr("On the review sheet."),
                   evidence |-> JArr(<<JObj([from |-> JStr("quiz"), note |-> JStr("Quiz 3")])>>)])
OddBadgeTopic == JObj([topic |-> JStr("Matrices"), badge |-> JStr("Maybe"), evidence |-> JStr("none")])
NoBadgeTopic == JObj([topic |-> JStr("Series")])

\* the entries the candidate topic lists are drawn from, and the rarer ones that
\* are tried as one-entry lists
TopicEntries ==
    {GoodTopic, OddBadgeTopic, NoBadgeTopic,
     JObj([topic |-> JStr(" Quiz "), badge |-> JStr(BadgeMayNot)]),
     JNull,
     JObj([badge |-> JStr(BadgeLikely)])}

RareEntries ==
    {JObj([topic |-> JStr(" Limits"), badge |-> JNum(3)]),
     JObj([topic |-> JStr("  "), badge |-> JNull]),
     JObj([topic |-> JNum(4), badge |-> JStr(BadgeLikely)]),
     JStr("Vectors")}

MaxCandidateTopics == 2

CandidateTopicLists == UNION { [1..k -> TopicEntries] : k \in 0..MaxCandidateTopics }

ScopeLocks ==
    {JUndefined, JNull, JStr("locked"), JObj(NoProps), JObj([topics |-> JStr("none")]),
     JObj([topics |-> JNull, out_of_scope_topics |-> JStr("n/a")])}
    \cup { JObj([topics |-> JArr(ts)]) : ts \in CandidateTopicLists }
    \cup { JObj([topics |-> JArr(<<e>>)]) : e \in RareEntries }

UiHints ==
    {JUndefined, JObj(NoProps),
     JObj([default_selected_topics |-> JArr(<<>>)]),
     JObj([default_selected_topics |-> JStr("all")]),
     JObj([default_selected_topics |-> JStrs(<<"Vectors">>)]),
     JObj([topic_chips |-> JStrs(<<"Bogus chip">>), default_selected_topics |-> JArr(<<>>)]),
     JObj([topic_chips |-> JStrs(<<"Bogus chip">>), recommended_time_buttons |-> JNum(30)])}

WithProp(key, v) == IF v.t = "undefined" THEN NoProps ELSE [k \in {key} |-> v]

\* candidates that vary the parts of the document outside scope_lock and ui_hints
OtherCandidates ==
    {JObj([checklist |-> JObj([items |-> JArr(<<JNull>>)])]),
     JObj([checklist |-> JObj([items |-> JArr(<<JObj([id |-> JStr("c1"), task |-> JStr("Drill vectors"),
                                                      badge |-> JStr("High")])>>)])]),
     JObj([checklist |-> JObj([items |-> JStr("todo")])]),
     JObj([study_guide |-> JObj([sections |-> JArr(<<JNull>>)])]),
     JObj([study_guide |-> JObj([sections |-> JArr(<<JObj([id |-> JStr("diagnostic"),
                                                           questions |-> JNum(3)])>>)])]),
     JObj([study_guide |-> JObj([sections |-> JArr(<<JObj([id |-> JStr("practice_sets"),
         sets |-> JArr(<<JObj([topic |-> JStr("Dot products"), set_id |-> JStr("ps1")])>>)])>>)])]),
     JObj([meta |-> JObj([scope_confidence |-> JNum(150), course |-> JObj([teacher_names |-> JStr("Ms. Lee")])])]),
     JObj([meta |-> JObj([scope_confidence |-> JStr("high")])]),
     JObj([meta |-> JStr("n/a"), status |-> JStr("DRAFT")]),
     JObj([tutor_handoff |-> JObj([context |-> JObj([topics |-> JStr("all")])])]),
     JObj([scope_lock |-> JObj([topics |-> JArr(<<JObj([topic |-> JStr("algebra"),
                                                        badge |-> JStr(BadgeLikely)])>>)]),
           study_guide |-> JObj([sections |-> JArr(<<>>)])]),
     JObj([scope_lock |-> JObj([topics |-> JArr(<<JObj([topic |-> JStr("algebra"),
                                                        badge |-> JStr(BadgeLikely)])>>)]),
           study_guide |-> JObj([sections |-> JArr(<<JObj([id |-> JStr("practice_sets"),
               sets |-> JArr(<<JObj([topic |-> JStr("General Math"), set_id |-> JStr("ps1")])>>)])>>)])]),
     JArr(<<>>), JArr(<<JNum(1)>>)}

NonObjectCandidates ==
    {JUndefined, JNull, JStr("Sorry, I cannot help."), JStr(""), JNum(42), JNum(0), JBool(TRUE), JBool(FALSE)}

Candidates ==
    { JObj(Merge(WithProp("scope_lock", sl), WithProp("ui_hints", ui))) : sl \in ScopeLocks, ui \in UiHints }
    \cup OtherCandidates
    \cup NonObjectCandidates

-----------------------------------------------------------------------------
(* Output Normalizer run: one call normalizeGuide(candidate, fallback).    *)

Idle == "idle"

nIdle == nPc = Idle /\ candidate = JUndefined /\ fallback = JUndefined /\ normalized = JUndefined
NoResponse == [kind |-> "none", status |-> 0, error |-> "",
               studyGuide |-> JUndefined, studyGuideStructured |-> JUndefined]
ValidRequest(b) == [valid |-> TRUE, issue |-> "", body |-> b]
InvalidRequest(issue, b) == [valid |-> FALSE, issue |-> issue, body |-> b]

gIdle == /\ gPc = Idle /\ request = ValidRequest(Body(NoCourse, NoPrompt, <<>>, <<>>))
         /\ gFallback = JUndefined /\ modelReply = NoReply
         /\ generatedRaw = JUndefined /\ response = NoResponse /\ modelCalls = 0
sIdle == sPc = Idle /\ sBody = Body(NoCourse, NoPrompt, <<>>, <<>>) /\ topics = <<>>
fIdle ==
    fPc = Idle /\ courses = <<>> /\ assignmentsByCourse = <<>> /\ recommendations = <<>> /\ gradeSignals = <<>>

\* the Evidence Gatherer's values: a due_at is [present, t] with t in parts of a
\* day of local time, a target assessment [type, id, title, due]
NoDue == [present |-> FALSE, t |-> 0]
NoCourseGuess == [id |-> 0, name |-> "", course_code |-> ""]
NoTarget == [type |-> "none", id |-> 0, title |-> "", due |-> NoDue]
NoQuizDetails == [hasTimeLimit |-> FALSE, time_limit |-> 0, hasAttempts |-> FALSE, allowed_attempts |-> 0]
NoGatherRequest == [valid |-> FALSE, userQuestion |-> "", userToday |-> 0, hasCourseId |-> FALSE, courseId |-> 0]
NoGatherResponse ==
    [kind |-> "none", status |-> 0, error |-> "", hasCourse |-> FALSE, course_id |-> 0,
     targetAssessment |-> NoTarget, uncertainties |-> <<>>, userQuestions |-> <<>>,
     weakSignals |-> <<>>, ready_to_generate |-> FALSE]

eIdle ==
    /\ ePc = Idle /\ eRequest = NoGatherRequest /\ eCourses = <<>> /\ eCourse = NoCourseGuess
    /\ eQuizzes = <<>> /\ eAssignments = <<>> /\ eTarget = NoTarget
    /\ eQuizDetails = NoQuizDetails /\ eGrades = <<>>
    /\ eResponse = NoGatherResponse /\ canvasCalls = 0

lIdle == lPc = Idle /\ lDoc = JUndefined /\ lPrompt = NoPrompt /\ lGuide = JUndefined

\* the batch fetch: a fetch is [state, data], Promise.all's promise [state, error]
NoFetch == [state |-> "none", data |-> <<>>]
PendingAll == [state |-> "pending", error |-> ""]
bIdle ==
    /\ bPc = Idle /\ bCourseIds = <<>> /\ bFetches = <<>> /\ bOrder = <<>>
    /\ bAll = PendingAll /\ bMap = <<>> /\ bResponse = [kind |-> "none", status |-> 0, error |-> ""]

\* the paginated fetch: a url is the number of the page it names, 0 when undefined
NoPageResult == [kind |-> "none", items |-> <<>>, error |-> ""]
pIdle ==
    /\ pPc = Idle /\ pPages = <<>> /\ pNextUrl = 0 /\ pInFlight = {} /\ pRequested = <<>>
    /\ pReceived = 0 /\ pAll = <<>> /\ pResult = NoPageResult

NormInit ==
    /\ nPc = "call"
    /\ candidate \in Candidates
    /\ fallback \in { fallbackFor(b) : b \in GuideBodies }
    /\ normalized = JUndefined
    /\ gIdle /\ sIdle /\ fIdle /\ eIdle /\ lIdle /\ bIdle /\ pIdle

Normalize ==
    /\ nPc = "call"
    /\ normalized' = normalizeGuide(candidate, fallback)
    /\ nPc' = IF normalized' = TypeError THEN "threw" ELSE "returned"
    /\ UNCHANGED <<candidate, fallback, gVars, sVars, fVars, eVars, lVars, bVars, pVars>>

SpecNormalize == NormInit /\ [][Normalize]_vars

-----------------------------------------------------------------------------
(* Guide generation: POST of study-guide/route.ts, one step per await.     *)

\* the catch block, lines 814-820
ErrorResponse(message) ==
    [kind |-> "error", status |-> 400, error |-> message,
     studyGuide |-> JUndefined, studyGuideStructured |-> JUndefined]

\* lines 810-813
OkResponse(legacyGuide, generated) ==
    [kind |-> "ok", status |-> 200, error |-> "",
     studyGuide |-> legacyGuide, studyGuideStructured |-> generated]

Requests ==
    { ValidRequest(b) : b \in GuideBodies }
    \cup { InvalidRequest("userToday", Body(Course(7, "Algebra 2"), Prompt("help with quadratics"), <<>>, <<>>)),
           InvalidRequest("selectedCourse.name", Body(NoCourse, Prompt("gas laws"), <<>>, <<>>)) }

\* the JSON values a reply may parse to
ReplyValues ==
    { JObj(WithProp("scope_lock", sl)) : sl \in ScopeLocks }
    \cup { JObj(WithProp("ui_hints", ui)) : ui \in UiHints }
    \cup OtherCandidates
    \cup (NonObjectCandidates \ {JUndefined})

ModelReplies == {ReplyThrows, ReplyText} \cup { ReplyJson(v) : v \in ReplyValues }

GenInit ==
    /\ gPc = "received"
    /\ request \in Requests
    /\ gFallback = JUndefined
    /\ modelReply = NoReply
    /\ generatedRaw = JUndefined
    /\ response = NoResponse
    /\ modelCalls = 0
    /\ nIdle /\ sIdle /\ fIdle /\ eIdle /\ lIdle /\ bIdle /\ pIdle

\* lines 756-758: requestSchema.parse throws on an invalid body; otherwise the
\* fallback document is computed before anything is awaited
ParseRequest ==
    /\ gPc = "received"
    /\ IF request.valid
       THEN /\ gFallback' = fallbackFor(request.body)
            /\ gPc' = "calling"
            /\ UNCHANGED response
       ELSE /\ response' = ErrorResponse("ZodError: " \o request.issue)
            /\ gPc' = "responded"
            /\ UNCHANGED gFallback
    /\ UNCHANGED <<request, modelReply, generatedRaw, modelCalls, nVars, sVars, fVars, eVars, lVars, bVars, pVars>>

\* line 801: the one call of the generative collaborator
CallModel ==
    /\ gPc = "calling"
    /\ \E reply \in ModelReplies :
          /\ modelReply' = reply
          /\ modelCalls' = modelCalls + 1
          /\ IF generateStructuredThrows(reply)
             THEN /\ response' = ErrorResponse("upstream error")
                  /\ gPc' = "responded"
                  /\ UNCHANGED generatedRaw
             ELSE /\ generatedRaw' = generateStructured(reply, gFallback)
                  /\ gPc' = "generated"
                  /\ UNCHANGED response
    /\ UNCHANGED <<request, gFallback, nVars, sVars, fVars, eVars, lVars, bVars, pVars>>

\* lines 807-813, and the catch block when normalizeGuide or toLegacyGuide throws
Respond ==
    /\ gPc = "generated"
    /\ LET generated == normalizeGuide(generatedRaw, gFallback)
       IN response' =
            IF generated = TypeError THEN ErrorResponse("TypeError")
            ELSE IF toLegacyThrows(generated) THEN ErrorResponse("TypeError")
            ELSE OkResponse(toLegacyGuide(generated, request.body.userPrompt), generated)
    /\ gPc' = "responded"
    /\ UNCHANGED <<request, gFallback, modelReply, generatedRaw, modelCalls, nVars, sVars, fVars, eVars, lVars, bVars, pVars>>

GenNext == ParseRequest \/ CallModel \/ Respond

SpecGenerate == GenInit /\ [][GenNext]_vars

-----------------------------------------------------------------------------
(* Topic Scope Builder run: the topics defaultGuide builds for one request. *)

ScopeBodies ==
    { Body(c, q, u, a) :
        c \in {NoCourse, CourseNamed("Algebra II"), CourseNamed("Algebra 2"), CourseNamed("Algebra I"),
               CourseNamed("AP Chemistry"), CourseNamed("World History")},
        q \in {NoPrompt, Prompt("help with quadratics"), Prompt("What should I study"),
               Prompt("vertex and factoring"), Prompt(" Make a QUIZ guide on titration "),
               Prompt("review quadratic equations")},
        u \in {<<>>, <<"Quadratic Functions ">>, <<"quiz", "Unit 4: Gas laws">>,
               <<"Parabolas", "Completing the square", "Discriminant", "Complex numbers">>},
        a \in {<<>>,
               <<Assignment("Factoring quadratics worksheet", "", 6, 10)>>,
               <<UngradedAssignment("Lab 2", "Gas laws"), Assignment("Test", "", 9, 10)>>} }

ScopeInit ==
    /\ sPc = "request"
    /\ sBody \in ScopeBodies
    /\ topics = <<>>
    /\ nIdle /\ gIdle /\ fIdle /\ eIdle /\ lIdle /\ bIdle /\ pIdle

BuildScope ==
    /\ sPc = "request"
    /\ topics' = buildTopics(sBody, extractTopicTokens(trim(promptText(sBody))))
    /\ sPc' = "built"
    /\ UNCHANGED <<sBody, nVars, gVars, fVars, eVars, lVars, bVars, pVars>>

SpecScope == ScopeInit /\ [][BuildScope]_vars

-----------------------------------------------------------------------------
(* Focus Scorer: lib/server/insights.ts                                    *)
(* A course is [id, name, enrollments], an enrollment [hasScore, score]    *)
(* (computed_current_score, whole percents), an assignment                 *)
(* [name, hasScore, score] (submission.score).                             *)

InsightStopWords ==
    {"the", "a", "an", "for", "to", "and", "of", "in", "on", "with", "unit", "chapter",
     "project", "assignment", "quiz", "test", "lab"}

inferConceptFromTitle(title) ==
    LET tokens == SelectSeq(splitAlnum(toLowerCase(title), "", <<>>),
                            LAMBDA token : Len(token) > 2 /\ token \notin InsightStopWords)
    IN IF Len(tokens) = 0 THEN "Core course concepts" ELSE join(slice0(tokens, 4), " ")

\* Number(course.enrollments?.[0]?.computed_current_score ?? 0)
currentScore(course) ==
    IF Len(course.enrollments) > 0 /\ course.enrollments[1].hasScore
    THEN course.enrollments[1].score ELSE 0

\* a weighting without the medium branch
priorityWeightFlat(priority) ==
    IF priority = "high" THEN 3 ELSE 1

priorityWeight(priority) ==
    IF priority = "high" THEN 3
    ELSE IF priority = "medium" THEN 2
    ELSE 1

\* the comparator of line 89
compareRecommendations(a, b) == priorityWeight(b.priority) - priorityWeight(a.priority)

\* the comparator of line 67
compareScores(a, b) == a.score - b.score

\* Array.prototype.sort is stable: an element goes after every element that the
\* comparator does not order after it
insertRecommendation(sorted, x) ==
    LET pos == Cardinality({i \in 1..Len(sorted) : compareRecommendations(sorted[i], x) <= 0})
    IN SubSeq(sorted, 1, pos) \o <<x>> \o SubSeq(sorted, pos + 1, Len(sorted))

RECURSIVE sortRecommendations(_)
sortRecommendations(seq) ==
    IF Len(seq) = 0 THEN <<>>
    ELSE insertRecommendation(sortRecommendations(SubSeq(seq, 1, Len(seq) - 1)), seq[Len(seq)])

insertAssignment(sorted, x) ==
    LET pos == Cardinality({i \in 1..Len(sorted) : compareScores(sorted[i], x) <= 0})
    IN SubSeq(sorted, 1, pos) \o <<x>> \o SubSeq(sorted, pos + 1, Len(sorted))

RECURSIVE sortAssignments(_)
sortAssignments(seq) ==
    IF Len(seq) = 0 THEN <<>>
    ELSE insertAssignment(sortAssignments(SubSeq(seq, 1, Len(seq) - 1)), seq[Len(seq)])

\* score.toFixed(1) of a whole number
toFixed1(score) == ToString(score) \o ".0"

\* the map callback, lines 62-88
recommendationFor(course, byCourse) ==
    LET score == currentScore(course)
        assignments == IF course.id \in DOMAIN byCourse THEN byCourse[course.id] ELSE <<>>
        scored == sortAssignments(SelectSeq(assignments, LAMBDA a : a.hasScore))
        concept == IF Len(scored) > 0 THEN inferConceptFromTitle(scored[1].name) ELSE "Foundational review"
        priority == IF score < 75 THEN "high" ELSE IF score < 88 THEN "medium" ELSE "low"
    IN [subject |-> course.name,
        priority |-> priority,
        concept |-> concept,
        why |-> IF priority = "high"
                THEN "Low current score (" \o toFixed1(score) \o "%) and weaker assignment outcomes."
                ELSE IF priority = "medium"
                THEN "Moderate score (" \o toFixed1(score) \o "%) needs reinforcement."
                ELSE "Strong score (" \o toFixed1(score) \o "%) - maintain with light review.",
        suggestedMinutesPerWeek |-> IF priority = "high" THEN 180 ELSE IF priority = "medium" THEN 120 ELSE 75]

\* a trend whose lower band would take in 75
trendOfInclusive(score) ==
    IF score <= 75 THEN "declining" ELSE IF score >= 88 THEN "improving" ELSE "steady"

\* lines 41-46
trendOf(score) ==
    IF score < 75 THEN "declining" ELSE IF score >= 88 THEN "improving" ELSE "steady"

buildGradeSignals(cs) ==
    MapSeq(cs, LAMBDA course :
        [subject |-> course.name,
         currentScore |-> currentScore(course),
         trend |-> trendOf(currentScore(course)),
         reason |-> IF currentScore(course) < 75 THEN "Current score is below target band."
                    ELSE "Performance is stable."])

buildFocusRecommendations(cs, byCourse) ==
    sortRecommendations(MapSeq(cs, LAMBDA course : recommendationFor(course, byCourse)))

MaxCourses == 3

CourseNames == <<"Biology", "Algebra 2", "World History", "Chemistry", "English 10">>

Enrollment(score) == [hasScore |-> TRUE, score |-> score]

EnrollmentLists ==
    {<<>>, <<[hasScore |-> FALSE, score |-> 0]>>, <<Enrollment(72)>>, <<Enrollment(74)>>,
     <<Enrollment(75), Enrollment(40)>>, <<Enrollment(87)>>, <<Enrollment(88), Enrollment(60)>>}

Graded(name, score) == [name |-> name, hasScore |-> TRUE, score |-> score]
Ungraded(name) == [name |-> name, hasScore |-> FALSE, score |-> 0]

AssignmentMaps ==
    { [id \in {} |-> <<>>],
      [id \in {1, 2} |-> IF id = 1
                         THEN <<Graded("Unit 3 Quiz: Cell Division", 7), Ungraded("Lab report"),
                                Graded("Chapter 2 Test - The Cell Membrane and Transport", 4)>>
                         ELSE <<Ungraded("Project outline")>>],
      [id \in {2, 3} |-> <<Graded("Quiz", 5), Graded("Factoring practice", 5)>>] }

CourseLists ==
    UNION { { [i \in 1..k |-> [id |-> i, name |-> CourseNames[i], enrollments |-> e[i]]] :
              e \in [1..k -> EnrollmentLists] } : k \in 0..MaxCourses }

FocusInit ==
    /\ fPc = "request"
    /\ courses \in CourseLists
    /\ assignmentsByCourse \in AssignmentMaps
    /\ recommendations = <<>>
    /\ gradeSignals = <<>>
    /\ nIdle /\ gIdle /\ sIdle /\ eIdle /\ lIdle /\ bIdle /\ pIdle

ScoreFocus ==
    /\ fPc = "request"
    /\ gradeSignals' = buildGradeSignals(courses)
    /\ recommendations' = buildFocusRecommendations(courses, assignmentsByCourse)
    /\ fPc' = "scored"
    /\ UNCHANGED <<courses, assignmentsByCourse, nVars, gVars, sVars, eVars, lVars, bVars, pVars>>

SpecFocus == FocusInit /\ [][ScoreFocus]_vars

-----------------------------------------------------------------------------
(* Evidence Gatherer: POST of the scope-lock route (unnamed/part_008).     *)
(* The result keeps the course, the target assessment, the uncertainties,  *)
(* the user questions, the weak signals and ready_to_generate; the         *)
(* materials lists are fetched but their contents are not modelled.        *)

GatherStopWords ==
    {"i", "need", "help", "with", "the", "a", "an", "for", "to", "on", "and", "of", "my",
     "quiz", "test", "study", "guide"}

MaxGatherTokens == 8

\* extractTopicTokens of part_008
gatherTopicTokens(question) ==
    slice0(uniq(SelectSeq(splitAlnum(toLowerCase(question), "", <<>>),
                          LAMBDA token : Len(token) > 2 /\ token \notin GatherStopWords)),
           MaxGatherTokens)

RECURSIVE textMatchScore(_, _)
textMatchScore(text, tokens) ==
    IF Len(tokens) = 0 THEN 0
    ELSE textMatchScore(text, SubSeq(tokens, 1, Len(tokens) - 1))
         + (IF includes(toLowerCase(text), tokens[Len(tokens)]) THEN 1 ELSE 0)

\* parts of a day a timestamp distinguishes
DayParts == 2
WindowDays == 10

\* a timestamp of the given day (day 0 a Sunday) and part of day
At(day, part) == day * DayParts + part

\* new Date(dateStr).getDay() is neither 0 (Sunday) nor 6 (Saturday)
isWeekday(due) == due.present /\ ((due.t \div DayParts) % 7) \notin {0, 6}

\* the filter of lines 202-208 and 236-242
dueInWindow(due, today) ==
    /\ due.present /\ isWeekday(due)
    /\ due.t >= today /\ due.t <= today + WindowDays * DayParts

\* list.slice().sort((a, b) => score(b) - score(a))[0]: the sort is stable, so
\* the first element with the highest score; 0 for an empty list
firstOfBest(scores) ==
    IF Len(scores) = 0 THEN 0
    ELSE CHOOSE i \in 1..Len(scores) :
            /\ \A j \in 1..Len(scores) : scores[j] <= scores[i]
            /\ \A j \in 1..(i - 1) : scores[j] < scores[i]

\* a selection that would rank the courses even when the hint names one
guessCourseIgnoresHint(req, cs, tokens) ==
    LET best == firstOfBest([i \in 1..Len(cs) |->
                    textMatchScore(cs[i].name \o " " \o cs[i].course_code, tokens)])
    IN IF best = 0 THEN NoCourseGuess ELSE cs[best]

\* lines 159-168
guessCourse(req, cs, tokens) ==
    LET hinted == SelectSeq(cs, LAMBDA c : c.id = req.courseId)
        best == firstOfBest([i \in 1..Len(cs) |->
                    textMatchScore(cs[i].name \o " " \o cs[i].course_code, tokens)])
    IN IF req.hasCourseId /\ req.courseId # 0 /\ Len(hinted) > 0 THEN hinted[1]
       ELSE IF best = 0 THEN NoCourseGuess ELSE cs[best]

\* a rank that would look at the due date only
rankScoreByDate(quiz, tokens, today) ==
    - (IF quiz.due.t >= today THEN quiz.due.t - today ELSE today - quiz.due.t)

\* lines 209-214, in parts of a day: tokenScore * 10 - dueSoonness
rankScore(quiz, tokens, today) ==
    textMatchScore(quiz.title \o " " \o quiz.description, tokens) * 10 * DayParts
        - (IF quiz.due.t >= today THEN quiz.due.t - today ELSE today - quiz.due.t)

\* lines 201-232
selectQuiz(quizzes, tokens, today) ==
    LET quizCandidates == SelectSeq(quizzes, LAMBDA quiz : dueInWindow(quiz.due, today))
        best == firstOfBest([i \in 1..Len(quizCandidates) |-> rankScore(quizCandidates[i], tokens, today)])
    IN IF best = 0 THEN NoTarget
       ELSE [type |-> "quiz", id |-> quizCandidates[best].id, title |-> quizCandidates[best].title,
             due |-> quizCandidates[best].due]

\* lines 235-258
selectAssignment(assignments, tokens, today) ==
    LET assignmentCandidates == SelectSeq(assignments, LAMBDA a : dueInWindow(a.due, today))
        best == firstOfBest([i \in 1..Len(assignmentCandidates) |->
                    textMatchScore(assignmentCandidates[i].name, tokens)])
    IN IF best = 0 THEN NoTarget
       ELSE [type |-> "assignment", id |-> assignmentCandidates[best].id,
             title |-> assignmentCandidates[best].name, due |-> assignmentCandidates[best].due]

\* Math.round(score / points_possible * 100) for a score that is not negative
roundPct(score, points) == (200 * score + points) \div (2 * points)

MaxWeakSignals == 5

\* lines 293-301; the sort is stable
weakSignals(gradeAssignments) ==
    LET graded == SelectSeq(gradeAssignments, LAMBDA item : item.hasScore /\ item.hasPoints /\ item.points > 0)
        weak == SelectSeq([i \in 1..Len(graded) |->
                              [item_name |-> graded[i].name,
                               score_pct |-> roundPct(graded[i].score, graded[i].points)]],
                          LAMBDA item : item.score_pct < 80)
        place(i) == Cardinality({j \in 1..Len(weak) :
                        \/ weak[j].score_pct < weak[i].score_pct
                        \/ (weak[j].score_pct = weak[i].score_pct /\ j <= i)})
        sorted == [k \in 1..Len(weak) |-> weak[CHOOSE i \in 1..Len(weak) : place(i) = k]]
    IN slice0(sorted, MaxWeakSignals)

\* a policy that would not look at the allowed attempts
uncertaintiesIgnoreAttempts(target, details) ==
    (IF target = NoTarget
     THEN <<"No weekday assessment in the next 10 days was found in the selected course.">> ELSE <<>>)
    \o (IF (~details.hasTimeLimit \/ details.time_limit = 0) /\ target.type = "quiz"
        THEN <<"Quiz time limit is not clearly available.">> ELSE <<>>)

\* lines 315-324
uncertaintiesOf(target, details) ==
    (IF target = NoTarget
     THEN <<"No weekday assessment in the next 10 days was found in the selected course.">> ELSE <<>>)
    \o (IF (~details.hasTimeLimit \/ details.time_limit = 0) /\ target.type = "quiz"
        THEN <<"Quiz time limit is not clearly available.">> ELSE <<>>)
    \o (IF ~details.hasAttempts /\ target.type = "quiz"
        THEN <<"Allowed attempts are not clearly available.">> ELSE <<>>)

\* lines 326-332
userQuestionsFor(uncertainties) ==
    IF Len(uncertainties) > 0
    THEN slice0(<<"If multiple assessments appear in your class, should we target the earliest weekday due date? (A) Yes (B) No, I will pick manually",
                  "What is the expected format if unclear? (A) Mostly MCQ (B) Mostly free response (C) Mixed">>, 2)
    ELSE <<>>

\* lines 418-425
GatherError(message) == [NoGatherResponse EXCEPT !.kind = "error", !.status = 400, !.error = message]

\* a "no course" result that would ask nothing
NoCourseResultSilent ==
    [NoGatherResponse EXCEPT !.kind = "ok", !.status = 200,
                             !.uncertainties = <<"No active course found.">>]

\* lines 171-196
NoCourseResult ==
    [NoGatherResponse EXCEPT !.kind = "ok", !.status = 200,
                             !.uncertainties = <<"No active course found.">>,
                             !.userQuestions = <<"Which course should be used for this study guide?">>]

\* lines 334-417
GatherResult(course, target, details, grades) ==
    [kind |-> "ok", status |-> 200, error |-> "", hasCourse |-> TRUE, course_id |-> course.id,
     targetAssessment |-> target,
     uncertainties |-> uncertaintiesOf(target, details),
     userQuestions |-> userQuestionsFor(uncertaintiesOf(target, details)),
     weakSignals |-> weakSignals(grades),
     ready_to_generate |-> FALSE]

GatherRequests ==
    {[valid |-> TRUE, userQuestion |-> "help with my genetics quiz", userToday |-> At(8, 0),
      hasCourseId |-> FALSE, courseId |-> 0],
     [valid |-> TRUE, userQuestion |-> "help with my genetics quiz", userToday |-> At(10, 0),
      hasCourseId |-> TRUE, courseId |-> 1],
     [valid |-> TRUE, userQuestion |-> "Study guide for quadratics", userToday |-> At(8, 0),
      hasCourseId |-> TRUE, courseId |-> 9],
     [valid |-> FALSE, userQuestion |-> "q", userToday |-> At(8, 0), hasCourseId |-> FALSE, courseId |-> 0],
     [valid |-> FALSE, userQuestion |-> "help with my genetics quiz", userToday |-> 0,
      hasCourseId |-> FALSE, courseId |-> 0]}

GatherCourseLists ==
    {<<>>,
     <<[id |-> 1, name |-> "World History", course_code |-> ""]>>,
     <<[id |-> 1, name |-> "World History", course_code |-> ""],
       [id |-> 2, name |-> "Biology", course_code |-> "BIO-GENETICS"],
       [id |-> 3, name |-> "Genetics", course_code |-> "GEN"]>>}

Due(day, part) == [present |-> TRUE, t |-> At(day, part)]

QuizPool ==
    <<[id |-> 11, title |-> "Cell division quiz", description |-> "", due |-> Due(9, 1)],
      [id |-> 12, title |-> "Unit quiz", description |-> "Covers genetics", due |-> Due(12, 0)],
      [id |-> 13, title |-> "Genetics weekend quiz", description |-> "", due |-> Due(13, 1)],
      [id |-> 14, title |-> "Genetics review quiz", description |-> "", due |-> Due(18, 1)],
      [id |-> 15, title |-> "Genetics practice", description |-> "", due |-> NoDue]>>

GatherAssignment(id, name, due, hasScore, score, hasPoints, points) ==
    [id |-> id, name |-> name, due |-> due, hasScore |-> hasScore, score |-> score,
     hasPoints |-> hasPoints, points |-> points]

AssignmentPool ==
    <<GatherAssignment(21, "Essay draft", Due(9, 0), FALSE, 0, TRUE, 20),
      GatherAssignment(22, "Genetics worksheet", Due(11, 1), TRUE, 7, TRUE, 10),
      GatherAssignment(23, "Genetics project", Due(14, 0), FALSE, 0, TRUE, 50),
      GatherAssignment(24, "Genetics reading", NoDue, FALSE, 0, FALSE, 0)>>

\* the lists a fetch may return: the pool's entries in pool order, any of them left out
SubSeqsOf(pool) ==
    { [i \in 1..Cardinality(S) |-> pool[CHOOSE k \in S : Cardinality({j \in S : j <= k}) = i]] :
        S \in SUBSET (1..Len(pool)) }

QuizDetailsOptions ==
    {[hasTimeLimit |-> TRUE, time_limit |-> 30, hasAttempts |-> TRUE, allowed_attempts |-> 1],
     [hasTimeLimit |-> FALSE, time_limit |-> 0, hasAttempts |-> TRUE, allowed_attempts |-> 2],
     [hasTimeLimit |-> TRUE, time_limit |-> 45, hasAttempts |-> FALSE, allowed_attempts |-> 0],
     NoQuizDetails}

GradeLists ==
    {<<>>,
     <<GatherAssignment(31, "Lab 1", NoDue, TRUE, 8, TRUE, 10),
       GatherAssignment(32, "Lab 2", NoDue, TRUE, 199, TRUE, 250),
       GatherAssignment(33, "Lab 3", NoDue, TRUE, 79, TRUE, 100)>>,
     <<GatherAssignment(41, "Quiz 1", NoDue, TRUE, 7, TRUE, 10),
       GatherAssignment(42, "Quiz 2", NoDue, TRUE, 3, TRUE, 10),
       GatherAssignment(43, "Bonus", NoDue, TRUE, 5, TRUE, 0),
       GatherAssignment(44, "Quiz 3", NoDue, FALSE, 0, TRUE, 10),
       GatherAssignment(45, "Quiz 4", NoDue, TRUE, 7, TRUE, 10),
       GatherAssignment(46, "Survey", NoDue, TRUE, 1, FALSE, 0),
       GatherAssignment(47, "Quiz 5", NoDue, TRUE, 9, TRUE, 10)>>,
     <<GatherAssignment(51, "Set 1", NoDue, TRUE, 60, TRUE, 100),
       GatherAssignment(52, "Set 2", NoDue, TRUE, 10, TRUE, 100),
       GatherAssignment(53, "Set 3", NoDue, TRUE, 75, TRUE, 100),
       GatherAssignment(54, "Set 4", NoDue, TRUE, 20, TRUE, 100),
       GatherAssignment(55, "Set 5", NoDue, TRUE, 40, TRUE, 100),
       GatherAssignment(56, "Set 6", NoDue, TRUE, 78, TRUE, 100),
       GatherAssignment(57, "Set 7", NoDue, TRUE, 30, TRUE, 100)>>}

GatherInit ==
    /\ ePc = "received"
    /\ eRequest \in GatherRequests
    /\ eCourses = <<>> /\ eCourse = NoCourseGuess
    /\ eQuizzes = <<>> /\ eAssignments = <<>> /\ eTarget = NoTarget
    /\ eQuizDetails = NoQuizDetails /\ eGrades = <<>>
    /\ eResponse = NoGatherResponse /\ canvasCalls = 0
    /\ nIdle /\ gIdle /\ sIdle /\ fIdle /\ lIdle /\ bIdle /\ pIdle

\* a collaborator call that rejects ends the handler in its catch block
GatherFails(calls) ==
    /\ eResponse' = GatherError("Canvas API error 500")
    /\ ePc' = "responded"
    /\ canvasCalls' = canvasCalls + calls

\* a handler that would validate only after the course list was fetched
GatherParseLate ==
    /\ ePc = "received"
    /\ IF eRequest.valid
       THEN ePc' = "courses" /\ UNCHANGED <<eResponse, canvasCalls>>
       ELSE /\ ePc' = "responded" /\ eResponse' = GatherError("invalid request")
            /\ canvasCalls' = canvasCalls + 1
    /\ UNCHANGED <<eRequest, eCourses, eCourse, eQuizzes, eAssignments, eTarget, eQuizDetails, eGrades>>
    /\ UNCHANGED <<nVars, gVars, sVars, fVars, lVars, bVars, pVars>>

\* lines 151-157
GatherParse ==
    /\ ePc = "received"
    /\ IF eRequest.valid
       THEN ePc' = "courses" /\ UNCHANGED eResponse
       ELSE ePc' = "responded" /\ eResponse' = GatherError("invalid request")
    /\ UNCHANGED <<eRequest, eCourses, eCourse, eQuizzes, eAssignments, eTarget, eQuizDetails, eGrades, canvasCalls>>
    /\ UNCHANGED <<nVars, gVars, sVars, fVars, lVars, bVars, pVars>>

\* lines 158-197
FetchCourses ==
    /\ ePc = "courses"
    /\ \/ GatherFails(1) /\ UNCHANGED <<eCourses, eCourse>>
       \/ \E cs \in GatherCourseLists :
             /\ canvasCalls' = canvasCalls + 1
             /\ eCourses' = cs
             /\ eCourse' = guessCourse(eRequest, cs, gatherTopicTokens(eRequest.userQuestion))
             /\ IF eCourse' = NoCourseGuess
                THEN ePc' = "responded" /\ eResponse' = NoCourseResult
                ELSE ePc' = "quizzes" /\ UNCHANGED eResponse
    /\ UNCHANGED <<eRequest, eQuizzes, eAssignments, eTarget, eQuizDetails, eGrades>>
    /\ UNCHANGED <<nVars, gVars, sVars, fVars, lVars, bVars, pVars>>

\* lines 199-232
FetchQuizzes ==
    /\ ePc = "quizzes"
    /\ \/ GatherFails(1) /\ UNCHANGED <<eQuizzes, eTarget>>
       \/ \E quizzes \in SubSeqsOf(QuizPool) :
             /\ canvasCalls' = canvasCalls + 1
             /\ eQuizzes' = quizzes
             /\ eTarget' = selectQuiz(quizzes, gatherTopicTokens(eRequest.userQuestion), eRequest.userToday)
             /\ ePc' = IF eTarget' = NoTarget THEN "assignments" ELSE "details"
             /\ UNCHANGED eResponse
    /\ UNCHANGED <<eRequest, eCourses, eCourse, eAssignments, eQuizDetails, eGrades>>
    /\ UNCHANGED <<nVars, gVars, sVars, fVars, lVars, bVars, pVars>>

\* lines 233-259
FetchAssignments ==
    /\ ePc = "assignments"
    /\ \/ GatherFails(1) /\ UNCHANGED <<eAssignments, eTarget>>
       \/ \E assignments \in SubSeqsOf(AssignmentPool) :
             /\ canvasCalls' = canvasCalls + 1
             /\ eAssignments' = assignments
             /\ eTarget' = selectAssignment(assignments, gatherTopicTokens(eRequest.userQuestion),
                                            eRequest.userToday)
             /\ ePc' = "materials"
             /\ UNCHANGED eResponse
    /\ UNCHANGED <<eRequest, eCourses, eCourse, eQuizzes, eQuizDetails, eGrades>>
    /\ UNCHANGED <<nVars, gVars, sVars, fVars, lVars, bVars, pVars>>

\* lines 261-267
FetchQuizDetails ==
    /\ ePc = "details"
    /\ \/ GatherFails(1) /\ UNCHANGED eQuizDetails
       \/ \E details \in QuizDetailsOptions :
             /\ canvasCalls' = canvasCalls + 1
             /\ eQuizDetails' = details
             /\ ePc' = "materials"
             /\ UNCHANGED eResponse
    /\ UNCHANGED <<eRequest, eCourses, eCourse, eQuizzes, eAssignments, eTarget, eGrades>>
    /\ UNCHANGED <<nVars, gVars, sVars, fVars, lVars, bVars, pVars>>

\* lines 269-290: modules, the selected module's items when there is a module,
\* announcements, pages, files
FetchMaterials ==
    /\ ePc = "materials"
    /\ \/ \E calls \in 1..5 : GatherFails(calls)
       \/ \E hasModule \in BOOLEAN :
             /\ canvasCalls' = canvasCalls + (IF hasModule THEN 5 ELSE 4)
             /\ ePc' = "grades"
             /\ UNCHANGED eResponse
    /\ UNCHANGED <<eRequest, eCourses, eCourse, eQuizzes, eAssignments, eTarget, eQuizDetails, eGrades>>
    /\ UNCHANGED <<nVars, gVars, sVars, fVars, lVars, bVars, pVars>>

\* lines 292-417
FetchGrades ==
    /\ ePc = "grades"
    /\ \/ GatherFails(1) /\ UNCHANGED eGrades
       \/ \E grades \in GradeLists :
             /\ canvasCalls' = canvasCalls + 1
             /\ eGrades' = grades
             /\ eResponse' = GatherResult(eCourse, eTarget, eQuizDetails, grades)
             /\ ePc' = "responded"
    /\ UNCHANGED <<eRequest, eCourses, eCourse, eQuizzes, eAssignments, eTarget, eQuizDetails>>
    /\ UNCHANGED <<nVars, gVars, sVars, fVars, lVars, bVars, pVars>>

GatherNext ==
    \/ GatherParse \/ FetchCourses \/ FetchQuizzes \/ FetchAssignments
    \/ FetchQuizDetails \/ FetchMaterials \/ FetchGrades

SpecGather == GatherInit /\ [][GatherNext]_vars

\* one request to either handler: guide generation or evidence gathering
SpecValidate == (GenInit \/ GatherInit) /\ [][GenNext \/ GatherNext]_vars

-----------------------------------------------------------------------------
(* Legacy Projection run: one call toLegacyGuide(generated, userPrompt) on *)
(* a document of the GeneratorOutput type.                                 *)

WithTopics(doc, ts) ==
    JObj(Merge(doc.o, [scope_lock |-> JObj(Merge(doc.o.scope_lock.o, [topics |-> JArr(ts)]))]))

WithSections(doc, sections) ==
    JObj(Merge(doc.o, [study_guide |-> JObj(Merge(doc.o.study_guide.o, [sections |-> JArr(sections)]))]))

LegacyTopicLists ==
    {<<>>,
     <<JObj([topic |-> JStr("algebra"), badge |-> JStr(BadgeLikely)])>>,
     <<JObj([topic |-> JStr("General Math"), badge |-> JStr(BadgeMayNot)]),
       JObj([topic |-> JStr("Vectors"), badge |-> JStr(BadgeLikely)])>>}

LegacySectionLists ==
    {<<>>,
     <<JObj([id |-> JStr("practice_sets"),
             sets |-> JArr(<<JObj([topic |-> JStr("General Math"), set_id |-> JStr("ps1")])>>)]),
       JObj([id |-> JStr("diagnostic"),
             questions |-> JArr(<<JObj([topic |-> JStr("Math")])>>)])>>,
     <<JObj([id |-> JStr("diagnostic"),
             questions |-> JArr(<<JObj([topic |-> JStr("Dot products")])>>)]),
       JObj([id |-> JStr("final_review"),
             timed_set |-> JArr(<<JObj([topic |-> JStr("Cross products")])>>)]),
       JObj([id |-> JStr("practice_sets"),
             sets |-> JArr(<<JObj([topic |-> JStr("math")]), JObj([topic |-> JStr("Matrix algebra")])>>)])>>}

LegacyDocs ==
    LET base == { fallbackFor(b) : b \in GuideBodies }
        retopic == base \cup { WithTopics(d, ts) : d \in base, ts \in LegacyTopicLists }
    IN retopic \cup { WithSections(d, ss) : d \in retopic, ss \in LegacySectionLists }

LegacyPrompts == {NoPrompt, Prompt(""), Prompt("   "), Prompt(" gas laws quiz ")}

LegacyInit ==
    /\ lPc = "call"
    /\ lDoc \in LegacyDocs
    /\ lPrompt \in LegacyPrompts
    /\ lGuide = JUndefined
    /\ nIdle /\ gIdle /\ sIdle /\ fIdle /\ eIdle /\ bIdle /\ pIdle

\* line 808: toLegacyGuide(generated, body.userPrompt)
ProjectLegacy ==
    /\ lPc = "call"
    /\ lGuide' = toLegacyGuide(lDoc, lPrompt)
    /\ lPc' = "returned"
    /\ UNCHANGED <<lDoc, lPrompt, nVars, gVars, sVars, fVars, eVars, bVars, pVars>>

SpecLegacy == LegacyInit /\ [][ProjectLegacy]_vars

-----------------------------------------------------------------------------
(* Batch fetch: getCanvasAssignmentsForCourses (lib/server/canvas.ts) as   *)
(* the overview GET awaits it. One getCanvasAssignments call per course id *)
(* is started before any is awaited; each settles on its own, in any       *)
(* order; Promise.all fulfils when the last one fulfils and rejects when   *)
(* the first one rejects.                                                  *)

MaxBatch == 3

BatchIdLists == { [i \in 1..k |-> 10 + i] : k \in 0..MaxBatch }

BatchLists == {<<>>, <<"Homework 1">>, <<"Homework 1", "Lab 2">>}

\* Object.fromEntries(courseIds.map((courseId, idx) => [courseId, results[idx]]))
fromEntries(courseIds, results) ==
    [id \in {courseIds[i] : i \in 1..Len(courseIds)} |->
        results[CHOOSE i \in 1..Len(courseIds) :
                   courseIds[i] = id /\ \A j \in (i + 1)..Len(courseIds) : courseIds[j] # id]]

BatchInit ==
    /\ bPc = "courses"
    /\ bCourseIds \in BatchIdLists
    /\ bFetches = <<>> /\ bOrder = <<>>
    /\ bAll = PendingAll /\ bMap = <<>>
    /\ bResponse = [kind |-> "none", status |-> 0, error |-> ""]
    /\ nIdle /\ gIdle /\ sIdle /\ fIdle /\ eIdle /\ lIdle /\ pIdle

\* canvas.ts line 79: every fetch is started; Promise.all of no promise is fulfilled
StartBatch ==
    /\ bPc = "courses"
    /\ bFetches' = [i \in 1..Len(bCourseIds) |-> [state |-> "pending", data |-> <<>>]]
    /\ bAll' = IF Len(bCourseIds) = 0 THEN [state |-> "fulfilled", error |-> ""] ELSE PendingAll
    /\ bPc' = "awaiting"
    /\ UNCHANGED <<bCourseIds, bOrder, bMap, bResponse>>
    /\ UNCHANGED <<nVars, gVars, sVars, fVars, eVars, lVars, pVars>>

\* a variant in which a failing fetch would only be recorded
FetchFailsTolerated(i) ==
    /\ bPc # "courses" /\ i \in 1..Len(bFetches) /\ bFetches[i].state = "pending"
    /\ bFetches' = [bFetches EXCEPT ![i] = [state |-> "failed", data |-> <<>>]]
    /\ bOrder' = Append(bOrder, i)
    /\ UNCHANGED <<bPc, bCourseIds, bAll, bMap, bResponse>>
    /\ UNCHANGED <<nVars, gVars, sVars, fVars, eVars, lVars, pVars>>

\* one fetch rejects (fetchCanvasPage throws, canvas.ts lines 21-24): Promise.all
\* rejects with that error unless it is already settled
FetchFails(i) ==
    /\ bPc # "courses" /\ i \in 1..Len(bFetches) /\ bFetches[i].state = "pending"
    /\ bFetches' = [bFetches EXCEPT ![i] = [state |-> "failed", data |-> <<>>]]
    /\ bOrder' = Append(bOrder, i)
    /\ bAll' = IF bAll.state = "pending"
               THEN [state |-> "rejected", error |-> "Canvas API error 500: course " \o ToString(bCourseIds[i])]
               ELSE bAll
    /\ UNCHANGED <<bPc, bCourseIds, bMap, bResponse>>
    /\ UNCHANGED <<nVars, gVars, sVars, fVars, eVars, lVars, pVars>>

\* one fetch fulfils; when it is the last one and none has rejected, Promise.all
\* fulfils with the results in the order of courseIds (canvas.ts lines 79-81)
FetchCompletes(i) ==
    /\ bPc # "courses" /\ i \in 1..Len(bFetches) /\ bFetches[i].state = "pending"
    /\ \E data \in BatchLists :
          /\ bFetches' = [bFetches EXCEPT ![i] = [state |-> "done", data |-> data]]
          /\ IF bAll.state = "pending" /\ \A j \in 1..Len(bFetches') : bFetches'[j].state = "done"
             THEN /\ bAll' = [state |-> "fulfilled", error |-> ""]
                  /\ bMap' = fromEntries(bCourseIds, [j \in 1..Len(bFetches') |-> bFetches'[j].data])
             ELSE UNCHANGED <<bAll, bMap>>
    /\ bOrder' = Append(bOrder, i)
    /\ UNCHANGED <<bPc, bCourseIds, bResponse>>
    /\ UNCHANGED <<nVars, gVars, sVars, fVars, eVars, lVars, pVars>>

\* part_009 from line 14 on: the handler goes on once the batch is settled; a
\* rejection ends it in the catch block
OverviewResponds ==
    /\ bPc = "awaiting" /\ bAll.state # "pending"
    /\ bResponse' = IF bAll.state = "fulfilled"
                    THEN [kind |-> "ok", status |-> 200, error |-> ""]
                    ELSE [kind |-> "error", status |-> 400, error |-> bAll.error]
    /\ bPc' = "responded"
    /\ UNCHANGED <<bCourseIds, bFetches, bOrder, bAll, bMap>>
    /\ UNCHANGED <<nVars, gVars, sVars, fVars, eVars, lVars, pVars>>

BatchNext ==
    \/ StartBatch
    \/ \E i \in 1..MaxBatch : FetchFails(i)
    \/ \E i \in 1..MaxBatch : FetchCompletes(i)
    \/ OverviewResponds

SpecBatch == BatchInit /\ [][BatchNext]_vars

-----------------------------------------------------------------------------
(* Paginated fetch: fetchAllPages and fetchCanvasPage (lib/server/canvas.ts). *)
(* The collaborator holds the pages of one list; page k's response carries *)
(* its items and, unless it is the last page, the link to page k + 1.      *)

MaxPages == 3

\* the item lists a page may carry: page k holds items numbered from 10 * k
PageItems(k) == {<<>>, <<10 * k + 1>>, <<10 * k + 1, 10 * k + 2>>}

PageLists ==
    UNION { {ps \in [1..n -> UNION {PageItems(k) : k \in 1..n}] : \A k \in 1..n : ps[k] \in PageItems(k)} :
            n \in 1..MaxPages }

PageInit ==
    /\ pPc = "loop"
    /\ pPages \in PageLists
    /\ pNextUrl = 1
    /\ pInFlight = {} /\ pRequested = <<>> /\ pReceived = 0
    /\ pAll = <<>> /\ pResult = NoPageResult
    /\ nIdle /\ gIdle /\ sIdle /\ fIdle /\ eIdle /\ lIdle /\ bIdle

\* a loop that would request the following page while one is in flight
RequestPageAhead ==
    /\ pPc \in {"loop", "fetching"}
    /\ Len(pRequested) < Len(pPages)
    /\ pInFlight' = pInFlight \cup {Len(pRequested) + 1}
    /\ pRequested' = Append(pRequested, Len(pRequested) + 1)
    /\ pPc' = "fetching"
    /\ UNCHANGED <<pPages, pNextUrl, pReceived, pAll, pResult>>
    /\ UNCHANGED <<nVars, gVars, sVars, fVars, eVars, lVars, bVars>>

\* lines 40-41 and 13-19: the loop test passes and the page at nextUrl is requested
RequestPage ==
    /\ pPc = "loop" /\ pNextUrl # 0
    /\ pInFlight' = pInFlight \cup {pNextUrl}
    /\ pRequested' = Append(pRequested, pNextUrl)
    /\ pPc' = "fetching"
    /\ UNCHANGED <<pPages, pNextUrl, pReceived, pAll, pResult>>
    /\ UNCHANGED <<nVars, gVars, sVars, fVars, eVars, lVars, bVars>>

\* lines 26-33 and 42-43: the response is read, its items appended, its next link kept
PageResponds ==
    /\ pPc = "fetching"
    /\ \E k \in pInFlight :
          /\ pInFlight' = pInFlight \ {k}
          /\ pAll' = pAll \o pPages[k]
          /\ pNextUrl' = IF k < Len(pPages) THEN k + 1 ELSE 0
    /\ pReceived' = pReceived + 1
    /\ pPc' = "loop"
    /\ UNCHANGED <<pPages, pRequested, pResult>>
    /\ UNCHANGED <<nVars, gVars, sVars, fVars, eVars, lVars, bVars>>

\* lines 21-24: a response that is not ok makes fetchCanvasPage throw, and
\* fetchAllPages with it
PageFails ==
    /\ pPc = "fetching"
    /\ \E k \in pInFlight :
          /\ pInFlight' = pInFlight \ {k}
          /\ pResult' = [kind |-> "error", items |-> <<>>, error |-> "Canvas API error 500: page " \o ToString(k)]
    /\ pPc' = "threw"
    /\ UNCHANGED <<pPages, pNextUrl, pRequested, pReceived, pAll>>
    /\ UNCHANGED <<nVars, gVars, sVars, fVars, eVars, lVars, bVars>>

\* lines 40 and 46: no next link is left and the accumulated items are returned
ReturnAll ==
    /\ pPc = "loop" /\ pNextUrl = 0
    /\ pResult' = [kind |-> "ok", items |-> pAll, error |-> ""]
    /\ pPc' = "returned"
    /\ UNCHANGED <<pPages, pNextUrl, pInFlight, pRequested, pReceived, pAll>>
    /\ UNCHANGED <<nVars, gVars, sVars, fVars, eVars, lVars, bVars>>

PageNext == RequestPage \/ PageResponds \/ PageFails \/ ReturnAll

SpecPages == PageInit /\ [][PageNext]_vars

-----------------------------------------------------------------------------
(* Properties.                                                             *)

OutTopics(doc) == doc.o.scope_lock.o.topics.a
OutChips(doc) == doc.o.ui_hints.o.topic_chips.a

\* the list the candidate proposes under scope_lock.topics (empty when it has none)
CandidateTopics == safeArray(Get(orEmpty(Get(candidate, "scope_lock")), "topics"), <<>>)
CandidateUi == orEmpty(Get(candidate, "ui_hints"))

\* C1: for every fallback with at least one topic and every candidate, normalize
\* returns a document whose scope_lock.topics has at least one element.
C1_NonEmptyScope ==
    (nPc # "call" /\ nPc # Idle /\ Len(OutTopics(fallback)) >= 1)
        => (normalized.t = "object" /\ Len(OutTopics(normalized)) >= 1)

\* C4: every topic of a returned document carries one of the three badges; a
\* candidate topic that is kept keeps a badge of the three, and any other badge
\* value becomes "Likely on test".
C4_BadgeClosure ==
    nPc = "returned" =>
        /\ \A i \in 1..Len(OutTopics(normalized)) :
              LET badge == Get(OutTopics(normalized)[i], "badge")
              IN badge.t = "string"
                 /\ badge.s \in {"Confirmed on test", "Likely on test", "May not be on test"}
        /\ LET kept == SelectSeq(CandidateTopics, LAMBDA e : ~isJunkTopic(Get(e, "topic").s))
           IN (candidate.t \in {"object", "array"} /\ Len(kept) > 0) =>
                /\ Len(OutTopics(normalized)) = Len(kept)
                /\ \A i \in 1..Len(kept) :
                      LET was == Get(kept[i], "badge")
                          now == Get(OutTopics(normalized)[i], "badge")
                      IN /\ Get(OutTopics(normalized)[i], "topic") = Get(kept[i], "topic")
                         /\ now = IF was \in {JStr("Confirmed on test"), JStr("Likely on test"),
                                              JStr("May not be on test")}
                                  THEN was ELSE JStr("Likely on test")

C4_Witness ==
    /\ nPc = "returned"
    /\ \E i \in 1..Len(CandidateTopics) : CandidateTopics[i] = OddBadgeTopic
    /\ \E i \in 1..Len(CandidateTopics) : CandidateTopics[i] = GoodTopic
    /\ \E i \in 1..Len(OutTopics(normalized)) :
          /\ Get(OutTopics(normalized)[i], "topic") = JStr("Matrices")
          /\ Get(OutTopics(normalized)[i], "badge") = JStr("Likely on test")

\* C5: the topic_chips of a returned document are the labels of its
\* scope_lock.topics, in the same order, whatever chips the candidate proposed.
C5_ChipsMirrorTopics ==
    nPc = "returned" =>
        /\ Len(OutChips(normalized)) = Len(OutTopics(normalized))
        /\ \A i \in 1..Len(OutTopics(normalized)) :
              OutChips(normalized)[i] = Get(OutTopics(normalized)[i], "topic")

C5_Witness ==
    /\ nPc = "returned"
    /\ Get(CandidateUi, "topic_chips") = JStrs(<<"Bogus chip">>)
    /\ CandidateTopics = <<GoodTopic, NoBadgeTopic>>
    /\ OutChips(normalized) = <<JStr("Vectors"), JStr("Series")>>

\* C6: when the candidate supplies no default_selected_topics (absent, not a
\* list, or empty), the returned default_selected_topics is the first 3 entries
\* of the returned topic_chips.
C6_DefaultSelectionFromChips ==
    (nPc = "returned" /\ Len(safeArray(Get(CandidateUi, "default_selected_topics"), <<>>)) = 0)
        => normalized.o.ui_hints.o.default_selected_topics.a = slice0(OutChips(normalized), 3)

\* C8: for every candidate that is not an object, normalize returns a document
\* value-equal to the fallback.
C8_NonObjectGivesFallback ==
    (nPc # "call" /\ nPc # Idle /\ candidate.t \in {"undefined", "null", "string", "number", "boolean"})
        => normalized = fallback

C8_Witness ==
    /\ nPc = "returned"
    /\ candidate = JNull
    /\ normalized = fallback
    /\ Len(OutTopics(normalized)) >= 3

\* C2: for every request that passes validation and every value the collaborator
\* returns, the generate operation ends in a success response carrying a document.
C2_MalformedOutputNeverAnError ==
    (gPc = "responded" /\ request.valid /\ modelCalls = 1 /\ ~modelReply.threw)
        => (response.kind = "ok" /\ response.studyGuideStructured.t = "object")

ScenarioA == Body(CourseNamed("Algebra II"), Prompt("help with quadratics"), <<>>, <<>>)

\* C9: for course "Algebra II", no assignments, no units and the question "help
\* with quadratics", the builder yields exactly the five quadratics topics of the
\* curriculum table, in order, each badged "May not be on test".
C9_ScenarioA ==
    (sPc = "built" /\ sBody = ScenarioA) =>
        /\ MapSeq(topics, TopicLabel) =
              <<"Quadratic functions", "Graphing parabolas", "Factoring quadratics",
                "Completing the square", "Quadratic formula and discriminant">>
        /\ \A i \in 1..Len(topics) : TopicBadge(topics[i]) = "May not be on test"

ClaimedWeight(priority) ==
    CASE priority = "high" -> 3 [] priority = "medium" -> 2 [] priority = "low" -> 1

\* C10: the scorer's output is the stable sort of the per-course recommendations
\* by descending priority weight (high=3, medium=2, low=1): adjacent weights never
\* increase, and recommendations of one priority keep their courses' input order.
C10_StableDescendingPriority ==
    fPc = "scored" =>
        LET perCourse == MapSeq(courses, LAMBDA c : recommendationFor(c, assignmentsByCourse))
        IN /\ Len(recommendations) = Len(courses)
           /\ \A i \in 1..(Len(recommendations) - 1) :
                 ClaimedWeight(recommendations[i].priority) >= ClaimedWeight(recommendations[i + 1].priority)
           /\ \A p \in {"high", "medium", "low"} :
                 SelectSeq(recommendations, LAMBDA r : r.priority = p)
                     = SelectSeq(perCourse, LAMBDA r : r.priority = p)

C10_Witness ==
    /\ fPc = "scored"
    /\ Len(courses) = 3
    /\ MapSeq(courses, currentScore) = <<88, 75, 0>>
    /\ MapSeq(recommendations, LAMBDA r : r.subject) = <<"World History", "Algebra 2", "Biology">>

\* the score the claim reads: the first enrollment record's, 0 when absent or null
FirstEnrollmentScore(course) ==
    IF course.enrollments = <<>> THEN 0
    ELSE IF Head(course.enrollments).hasScore THEN Head(course.enrollments).score ELSE 0

\* C11: per course, score < 75 gives priority high, 180 minutes and trend
\* declining; 75 <= score < 88 gives medium, 120 and steady; score >= 88 gives low,
\* 75 and improving, so priority and trend of one course are in the same band.
C11_BandsAgree ==
    fPc = "scored" =>
        /\ Len(gradeSignals) = Len(courses)
        /\ \A i \in 1..Len(courses) :
              LET score == FirstEnrollmentScore(courses[i])
                  band == IF score < 75 THEN <<"high", 180, "declining">>
                          ELSE IF score < 88 THEN <<"medium", 120, "steady">>
                          ELSE <<"low", 75, "improving">>
              IN /\ gradeSignals[i].subject = courses[i].name
                 /\ gradeSignals[i].trend = band[3]
                 /\ \E j \in 1..Len(recommendations) :
                       /\ recommendations[j].subject = courses[i].name
                       /\ recommendations[j].priority = band[1]
                       /\ recommendations[j].suggestedMinutesPerWeek = band[2]

C11_Witness ==
    /\ fPc = "scored"
    /\ MapSeq(courses, currentScore) = <<75, 74, 88>>
    /\ MapSeq(gradeSignals, LAMBDA g : g.trend) = <<"steady", "declining", "improving">>
    /\ MapSeq(recommendations, LAMBDA r : r.suggestedMinutesPerWeek) = <<180, 120, 75>>

GatherTokens == gatherTopicTokens(eRequest.userQuestion)

\* the question names no fetched course: no topic token occurs in any course's name or code
MatchesNoCourse ==
    \A i \in 1..Len(eCourses) :
        textMatchScore(eCourses[i].name \o " " \o eCourses[i].course_code, GatherTokens) = 0

GatherReturned == ePc = "responded" /\ eRequest.valid /\ eResponse.kind = "ok"

\* C12 as stated: a question matching zero active courses gives a normal result
\* with no assessment, ready_to_generate false and 1 to 2 user questions.
C12_ZeroMatchGivesNoAssessment ==
    (GatherReturned /\ MatchesNoCourse) =>
        /\ eResponse.targetAssessment = NoTarget
        /\ ~eResponse.ready_to_generate
        /\ Len(eResponse.userQuestions) \in 1..2

\* C12: when no active course exists (the fetched course list is empty), the
\* result is a normal one with no course, no assessment, ready_to_generate false
\* and exactly one user question; only a failing collaborator call gives an error
\* at that point.
C12_NoCourseResult ==
    /\ (GatherReturned /\ eCourses = <<>>) =>
          /\ ~eResponse.hasCourse
          /\ eResponse.targetAssessment = NoTarget
          /\ ~eResponse.ready_to_generate
          /\ Len(eResponse.uncertainties) >= 1
          /\ Len(eResponse.userQuestions) = 1
    /\ (ePc = "responded" /\ eRequest.valid /\ canvasCalls = 1 /\ eResponse.kind = "error")
          => eResponse.error = "Canvas API error 500"

C12_Witness ==
    /\ GatherReturned /\ eCourses = <<>> /\ canvasCalls = 1
    /\ eRequest.hasCourseId
    /\ eResponse.userQuestions = <<"Which course should be used for this study guide?">>

\* the returned document's only topic label is "algebra" and its sections name no
\* topic that is not generic
OnlyAlgebra ==
    /\ gPc = "responded" /\ response.kind = "ok"
    /\ MapSeq(OutTopics(response.studyGuideStructured), LAMBDA x : Get(x, "topic")) = <<JStr("algebra")>>
    /\ Len(specificTopicsOf(response.studyGuideStructured)) = 0

FirstPlanTask == response.studyGuide.o.plan.a[1].o.tasks.a[1].s

DiagnosticOn(topic) == "Run a 10-minute diagnostic on " \o topic \o " and mark each missed step."

\* C13 as stated: with "algebra" the only topic label, the plan tasks name the
\* trimmed user prompt when it is non-empty, else "current quiz topic".
C13_GenericFallsBackToPrompt ==
    OnlyAlgebra =>
        FirstPlanTask = DiagnosticOn(IF request.body.userPrompt.present
                                        /\ Len(trim(request.body.userPrompt.text)) > 0
                                     THEN trim(request.body.userPrompt.text)
                                     ELSE "current quiz topic")

\* C13: with "algebra" the only topic label and no specific topic in the
\* sections, the plan tasks name the raw label "algebra", whatever the prompt.
C13_GenericFallsBackToRawLabel ==
    OnlyAlgebra => FirstPlanTask = DiagnosticOn("algebra")

C13_Witness ==
    /\ OnlyAlgebra
    /\ request.body.userPrompt = Prompt(" gas laws quiz ")
    /\ FirstPlanTask = DiagnosticOn("algebra")

ReservedJunk ==
    {"what", "should", "could", "would", "can", "how", "when", "where", "why", "which",
     "make", "create", "build", "study", "guide", "quiz", "test"}

JunkFree(ts) ==
    \A i \in 1..Len(ts) :
        LET label == Get(ts[i], "topic")
        IN /\ label.t = "string"
           /\ Len(trim(label.s)) > 0
           /\ toLowerCase(label.s) \notin ReservedJunk
           /\ toLowerCase(trim(label.s)) \notin ReservedJunk

C15_NoDuplicateLabels ==
    sPc = "built" =>
        \A i, j \in 1..Len(topics) :
            i # j => toLowerCase(trim(TopicLabel(topics[i]))) # toLowerCase(trim(TopicLabel(topics[j])))

\* C16: for every valid request the Topic Scope Builder returns at least 1 and at
\* most 8 topics.
C16_ScopeBetweenOneAndEight ==
    sPc = "built" => (Len(topics) >= 1 /\ Len(topics) <= 8)

C16_Witness ==
    /\ sPc = "built"
    /\ Len(sBody.selectedUnits) = 4 /\ Len(sBody.selectedAssignments) = 2
    /\ sBody.userPrompt = Prompt("help with quadratics")
    /\ sBody.selectedCourse = CourseNamed("Algebra 2")
    /\ Len(topics) = 8
    /\ TopicLabel(topics[1]) = "Gas laws"
    /\ TopicLabel(topics[8]) = "Factoring quadratics"

\* C17: in every document the generate operation returns, meta.scope_confidence
\* is a number between 0 and 100 inclusive.
C17_ConfidenceInRange ==
    (gPc = "responded" /\ response.kind = "ok") =>
        LET confidence == response.studyGuideStructured.o.meta.o.scope_confidence
        IN confidence.t = "number" /\ confidence.n >= 0 /\ confidence.n <= 100

\* due on a weekday (day 0 a Sunday) at an instant of [today, today + 10 days]
Qualifies(due) ==
    /\ due.present
    /\ ((due.t \div DayParts) % 7) \in 1..5
    /\ eRequest.userToday <= due.t /\ due.t <= eRequest.userToday + 10 * DayParts

\* 10 x tokenMatchCount - daysFromToday, in parts of a day
ClaimedRank(quiz) ==
    10 * DayParts * textMatchScore(quiz.title \o " " \o quiz.description, GatherTokens)
        - (quiz.due.t - eRequest.userToday)

GatherSelected == GatherReturned /\ eResponse.hasCourse

\* C18: a gather call selects at most one assessment, always due on a weekday
\* within [today, today + 10 days]; a quiz whenever a quiz qualifies, one that
\* maximizes 10 x tokenMatchCount - daysFromToday; an assignment only when no quiz
\* qualifies, one with maximal tokenMatchCount; none only when nothing qualifies.
C18_AssessmentSelection ==
    GatherSelected =>
        LET target == eResponse.targetAssessment
            quizIdx == {i \in 1..Len(eQuizzes) : Qualifies(eQuizzes[i].due)}
            asgIdx == {i \in 1..Len(eAssignments) : Qualifies(eAssignments[i].due)}
        IN /\ target.type \in {"none", "quiz", "assignment"}
           /\ target # NoTarget => Qualifies(target.due)
           /\ quizIdx # {} =>
                 /\ target.type = "quiz"
                 /\ \E i \in quizIdx :
                       /\ target.id = eQuizzes[i].id /\ target.due = eQuizzes[i].due
                       /\ \A j \in quizIdx : ClaimedRank(eQuizzes[i]) >= ClaimedRank(eQuizzes[j])
           /\ (quizIdx = {} /\ asgIdx # {}) =>
                 /\ target.type = "assignment"
                 /\ \E i \in asgIdx :
                       /\ target.id = eAssignments[i].id /\ target.due = eAssignments[i].due
                       /\ \A j \in asgIdx : textMatchScore(eAssignments[i].name, GatherTokens)
                                               >= textMatchScore(eAssignments[j].name, GatherTokens)
           /\ (quizIdx = {} /\ asgIdx = {}) => target = NoTarget

C18_Witness ==
    /\ GatherSelected
    /\ eRequest.userToday = At(8, 0)
    /\ Len(eQuizzes) >= 3
    /\ eQuizzes[1].id = 11 /\ eQuizzes[2].id = 12
    /\ eResponse.targetAssessment.type = "quiz"
    /\ eResponse.targetAssessment.id = 12

\* C19: when no assessment is found, or the selected quiz's time limit or allowed
\* attempts are unknown, the result carries at least one uncertainty and 1 to 2
\* user questions; with no uncertainty there is no user question; the result is a
\* normal one, an error arising only from a failing collaborator call.
C19_UncertaintyPolicy ==
    /\ GatherReturned =>
          /\ (\/ eResponse.targetAssessment = NoTarget
              \/ (eResponse.targetAssessment.type = "quiz"
                  /\ (~eQuizDetails.hasTimeLimit \/ ~eQuizDetails.hasAttempts)))
                => (Len(eResponse.uncertainties) >= 1 /\ Len(eResponse.userQuestions) \in 1..2)
          /\ Len(eResponse.uncertainties) = 0 => eResponse.userQuestions = <<>>
    /\ (ePc = "responded" /\ eRequest.valid /\ eResponse.kind = "error")
          => eResponse.error = "Canvas API error 500"

C19_Witness ==
    /\ GatherSelected
    /\ eResponse.targetAssessment.type = "quiz"
    /\ eQuizDetails.hasTimeLimit /\ eQuizDetails.time_limit = 45 /\ ~eQuizDetails.hasAttempts
    /\ eResponse.uncertainties = <<"Allowed attempts are not clearly available.">>
    /\ Len(eResponse.userQuestions) = 2

\* C20: the weak signals are exactly the assignments of the selected course with a
\* numeric score, positive points possible and score / points x 100 below 80, in
\* ascending order of percentage, at most the 5 lowest; none at 80% or above is
\* listed and none strictly below 80% is left out while fewer than 5 are listed.
C20_WeakSignalsBelowEighty ==
    GatherSelected =>
        LET listed == eResponse.weakSignals
            below == {i \in 1..Len(eGrades) :
                         /\ eGrades[i].hasScore /\ eGrades[i].hasPoints /\ eGrades[i].points > 0
                         /\ 100 * eGrades[i].score < 80 * eGrades[i].points}
        IN /\ Len(listed) <= 5
           /\ \A k \in 1..Len(listed) : \E i \in below : eGrades[i].name = listed[k].item_name
           /\ \A k \in 1..(Len(listed) - 1) : listed[k].score_pct <= listed[k + 1].score_pct
           /\ Len(listed) < 5 =>
                 \A i \in below : \E k \in 1..Len(listed) : listed[k].item_name = eGrades[i].name

\* C21: a request that fails schema validation is rejected with an error and no
\* call of the grading-system collaborator or of the generative collaborator is
\* made for it, neither before nor after the rejection.
C21_ValidationBeforeCalls ==
    /\ (gPc # Idle /\ ~request.valid) =>
          /\ modelCalls = 0 /\ canvasCalls = 0
          /\ gPc \in {"received", "responded"}
          /\ gPc = "responded" => (response.kind = "error" /\ response.status = 400)
    /\ (ePc # Idle /\ ~eRequest.valid) =>
          /\ canvasCalls = 0 /\ modelCalls = 0
          /\ ePc \in {"received", "responded"}
          /\ ePc = "responded" => (eResponse.kind = "error" /\ eResponse.status = 400)

C21_Witness ==
    /\ ePc = "responded" /\ ~eRequest.valid /\ Len(eRequest.userQuestion) < 2
    /\ eResponse.kind = "error" /\ canvasCalls = 0

\* C22: a built topic is Confirmed exactly when its label appears inside a selected
\* assignment title or equals an explicit concept hint; otherwise Likely exactly
\* when its label appears inside a selected unit label or shares a token with the
\* extracted prompt tokens; otherwise MayNot; its single evidence entry has source
\* assignment, module or inference respectively. Letter case is not compared.
LabelInTitle(label) ==
    \E i \in 1..Len(sBody.selectedAssignments) :
        includes(toLowerCase(sBody.selectedAssignments[i].name), toLowerCase(label))

LabelIsHint(label) ==
    \E i \in 1..Len(sBody.selectedAssignments) :
        /\ Len(sBody.selectedAssignments[i].conceptHint) > 0
        /\ toLowerCase(sBody.selectedAssignments[i].conceptHint) = toLowerCase(label)

LabelInUnit(label) ==
    \E i \in 1..Len(sBody.selectedUnits) :
        includes(toLowerCase(sBody.selectedUnits[i]), toLowerCase(label))

SharesPromptToken(label) ==
    LET labelTokens == splitAlnum(toLowerCase(label), "", <<>>)
        promptTokens == extractTopicTokens(trim(promptText(sBody)))
    IN \E i \in 1..Len(labelTokens), j \in 1..Len(promptTokens) : labelTokens[i] = promptTokens[j]

ClaimedBadge(label) ==
    IF LabelInTitle(label) \/ LabelIsHint(label) THEN BadgeConfirmed
    ELSE IF LabelInUnit(label) \/ SharesPromptToken(label) THEN BadgeLikely
    ELSE BadgeMayNot

C22_BadgeRules ==
    sPc = "built" =>
        \A i \in 1..Len(topics) :
            /\ TopicBadge(topics[i]) = ClaimedBadge(TopicLabel(topics[i]))
            /\ Len(topics[i].o.evidence.a) = 1
            /\ topics[i].o.evidence.a[1].o.from.s =
                  (IF TopicBadge(topics[i]) = BadgeConfirmed THEN "assignment"
                   ELSE IF TopicBadge(topics[i]) = BadgeLikely THEN "module" ELSE "inference")

\* the value at a property path of a document
RECURSIVE GetPath(_, _)
GetPath(v, path) ==
    IF Len(path) = 0 THEN v ELSE GetPath(Get(v, path[1]), SubSeq(path, 2, Len(path)))

\* the fields the canonical schema declares as lists
ListPaths ==
    {<<"meta", "course", "teacher_names">>, <<"meta", "assumptions">>,
     <<"meta", "sources_used", "modules">>, <<"meta", "sources_used", "assignments">>,
     <<"meta", "sources_used", "quizzes">>, <<"meta", "sources_used", "pages">>,
     <<"meta", "sources_used", "files">>, <<"meta", "sources_used", "announcements">>,
     <<"scope_lock", "topics">>, <<"scope_lock", "out_of_scope_topics">>,
     <<"study_guide", "overview", "if_you_have_20_min">>,
     <<"study_guide", "overview", "if_you_have_45_min">>,
     <<"study_guide", "overview", "if_you_have_75_min">>,
     <<"study_guide", "sections">>, <<"checklist", "items">>,
     <<"tutor_handoff", "context", "topics">>,
     <<"tutor_handoff", "context", "practice_blueprints">>,
     <<"tutor_handoff", "context", "materials", "module_items">>,
     <<"tutor_handoff", "context", "materials", "files">>,
     <<"tutor_handoff", "context", "materials", "pages">>,
     <<"tutor_handoff", "context", "materials", "announcements">>,
     <<"tutor_handoff", "suggested_quick_actions">>,
     <<"ui_hints", "topic_chips">>, <<"ui_hints", "default_selected_topics">>,
     <<"ui_hints", "recommended_time_buttons">>}

\* C23: for every object candidate, every field of normalize's output that the
\* schema declares as a list holds a list, a candidate value that is present but
\* not a list being replaced by the fallback's value, and no field of the fallback
\* is missing from the output.
C23_ListFieldsHoldLists ==
    (nPc = "returned" /\ candidate.t = "object") =>
        /\ \A p \in ListPaths :
              /\ GetPath(normalized, p).t = "array"
              /\ (GetPath(candidate, p).t \notin {"undefined", "array"}
                    /\ p \notin {<<"scope_lock", "topics">>, <<"ui_hints", "topic_chips">>,
                                 <<"ui_hints", "default_selected_topics">>})
                    => GetPath(normalized, p) = GetPath(fallback, p)
        /\ \A k \in DOMAIN fallback.o :
              /\ k \in DOMAIN normalized.o
              /\ fallback.o[k].t = "object" => DOMAIN fallback.o[k].o \subseteq DOMAIN normalized.o[k].o

\* C24: in every document the generate operation returns, tutor_handoff.context.topics
\* lists the same labels with the same badges, in the same order, as
\* scope_lock.topics of that document.
C24_HandoffTopicsMirrorScope ==
    response.kind = "ok" =>
        LET scopeTopics == GetPath(response.studyGuideStructured, <<"scope_lock", "topics">>)
            handoffTopics == GetPath(response.studyGuideStructured, <<"tutor_handoff", "context", "topics">>)
        IN /\ handoffTopics.t = "array"
           /\ Len(handoffTopics.a) = Len(scopeTopics.a)
           /\ \A i \in 1..Len(scopeTopics.a) :
                 /\ Get(handoffTopics.a[i], "topic") = Get(scopeTopics.a[i], "topic")
                 /\ Get(handoffTopics.a[i], "badge") = Get(scopeTopics.a[i], "badge")

\* C25: in the locally computed fallback document, every checklist item's
\* linked_section_id equals the id of one of the sections in study_guide.sections
\* of the same document.
C25_ChecklistLinksToSection ==
    gFallback # JUndefined =>
        LET items == GetPath(gFallback, <<"checklist", "items">>).a
            sections == GetPath(gFallback, <<"study_guide", "sections">>).a
        IN \A i \in 1..Len(items) :
              \E j \in 1..Len(sections) :
                  Get(sections[j], "id") = Get(items[i], "linked_section_id")

\* the topics the claim's chain draws from, and its first step
ClaimedSpecific ==
    LET sections == GetPath(lDoc, <<"study_guide", "sections">>).a
    IN SelectSeq(uniq(sectionTopics(findSection(sections, "practice_sets"), "sets")
                      \o sectionTopics(findSection(sections, "diagnostic"), "questions")
                      \o sectionTopics(findSection(sections, "final_review"), "timed_set")
                      \o [i \in 1..Len(GetPath(lDoc, <<"scope_lock", "topics">>).a) |->
                             GetPath(lDoc, <<"scope_lock", "topics">>).a[i].o.topic.s]),
                 isSpecificTopic)

ClaimedPrimary ==
    LET ts == GetPath(lDoc, <<"scope_lock", "topics">>).a
    IN IF Len(ClaimedSpecific) > 0 THEN ClaimedSpecific[1]
       ELSE IF Len(ts) > 0 THEN ts[1].o.topic.s
       ELSE IF lPrompt.present /\ Len(trim(lPrompt.text)) > 0 THEN trim(lPrompt.text)
       ELSE "current quiz topic"

CoursesFetched ==
    /\ eRequest.valid /\ ePc \notin {Idle, "received", "courses"}
    /\ ~(canvasCalls = 1 /\ eResponse.kind = "error")

\* the number of topic tokens present in a course's name and code
TokensPresent(course) ==
    LET tokens == GatherTokens
        text == toLowerCase(course.name \o " " \o course.course_code)
    IN Cardinality({k \in 1..Len(tokens) : includes(text, tokens[k])})

HintResolves == eRequest.hasCourseId /\ \E i \in 1..Len(eCourses) : eCourses[i].id = eRequest.courseId

\* C27: the gatherer uses the hinted course whenever the hint identifies a fetched
\* course; otherwise the course with the highest count of topic tokens present in
\* its name and code, the first in fetch order among equal counts; it reports
\* "no course" only when the fetched course list is empty.
C27_CourseSelection ==
    CoursesFetched =>
        /\ HintResolves => eCourse.id = eRequest.courseId
        /\ (~HintResolves /\ eCourses # <<>>) =>
              LET count == [i \in 1..Len(eCourses) |-> TokensPresent(eCourses[i])]
              IN \E i \in 1..Len(eCourses) :
                    /\ eCourse = eCourses[i]
                    /\ \A j \in 1..Len(eCourses) : count[j] <= count[i]
                    /\ \A j \in 1..(i - 1) : count[j] < count[i]
        /\ (eCourse = NoCourseGuess) <=> (eCourses = <<>>)
        /\ (GatherReturned /\ ~eResponse.hasCourse) <=> (ePc = "responded" /\ eCourses = <<>>)
        /\ (GatherReturned /\ eResponse.hasCourse) => eResponse.course_id = eCourse.id

C27_Witness ==
    /\ GatherReturned /\ ~eRequest.hasCourseId /\ Len(eCourses) = 3
    /\ TokensPresent(eCourses[1]) = 0
    /\ TokensPresent(eCourses[2]) = 1 /\ TokensPresent(eCourses[3]) = 1
    /\ eResponse.hasCourse /\ eResponse.course_id = eCourses[2].id

\* C28: the batch either returns, for every requested course id, the list fetched
\* for that id, whatever order the fetches complete in, or fails as a whole with
\* one error as soon as any one fetch fails; it never returns a partial map.
C28_BatchAllOrNothing ==
    LET failed == {i \in 1..Len(bFetches) : bFetches[i].state = "failed"}
    IN /\ (failed # {}) <=> (bAll.state = "rejected")
       /\ bAll.state = "rejected" =>
             /\ bMap = <<>>
             /\ bAll.error = "Canvas API error 500: course " \o ToString(bCourseIds[bOrder[
                    CHOOSE k \in 1..Len(bOrder) :
                        bOrder[k] \in failed /\ \A h \in 1..(k - 1) : bOrder[h] \notin failed]])
       /\ bAll.state = "fulfilled" =>
             /\ \A i \in 1..Len(bFetches) : bFetches[i].state = "done"
             /\ DOMAIN bMap = {bCourseIds[i] : i \in 1..Len(bCourseIds)}
             /\ \A i \in 1..Len(bCourseIds) : bMap[bCourseIds[i]] = bFetches[i].data
       /\ bAll.state = "pending" => bMap = <<>>
       /\ bResponse.kind = "ok" => bAll.state = "fulfilled"
       /\ bResponse.kind = "error" => (bAll.state = "rejected" /\ bResponse.error = bAll.error)

C28_Witness ==
    /\ bResponse.kind = "ok" /\ Len(bCourseIds) = 3
    /\ bOrder = <<3, 1, 2>>
    /\ bMap[11] = <<"Homework 1">> /\ bMap[12] = <<>> /\ bMap[13] = <<"Homework 1", "Lab 2">>

\* the items of the first n pages, in page order
RECURSIVE PagesUpTo(_)
PagesUpTo(n) == IF n = 0 THEN <<>> ELSE PagesUpTo(n - 1) \o pPages[n]

\* C29: page k + 1 is requested only after page k's response and its link were
\* received, two page requests are never in flight, the fetch stops at the page
\* with no next link and returns the items of all pages in page order; a failing
\* page aborts it with an error and no partial list.
C29_SequentialPagination ==
    /\ Cardinality(pInFlight) <= 1
    /\ pRequested = [k \in 1..Len(pRequested) |-> k]
    /\ Len(pRequested) = pReceived + Cardinality(pInFlight) + (IF pPc = "threw" THEN 1 ELSE 0)
    /\ pInFlight # {} => pAll = PagesUpTo(Len(pRequested) - 1)
    /\ pPc = "returned" =>
          /\ pResult.kind = "ok" /\ pResult.items = PagesUpTo(Len(pPages))
          /\ Len(pRequested) = Len(pPages) /\ pReceived = Len(pPages)
    /\ pPc = "threw" => (pResult.kind = "error" /\ pResult.items = <<>> /\ pInFlight = {})
    /\ pResult.kind = "ok" => pPc = "returned"

C29_Witness ==
    /\ pPc = "returned" /\ Len(pPages) = 3
    /\ pRequested = <<1, 2, 3>>
    /\ pResult.items = <<11, 12, 31>>

\* C30: normalize is idempotent on its own output: for every fallback with at
\* least one topic and every object candidate it returns a document for,
\* normalizing that document again with the same fallback changes nothing.
C30_NormalizeIdempotent ==
    (nPc = "returned" /\ candidate.t = "object" /\ Len(OutTopics(fallback)) >= 1) =>
        normalizeGuide(normalized, fallback) = normalized

C30_Witness ==
    /\ nPc = "returned" /\ candidate.t = "object"
    /\ CandidateTopics = <<GoodTopic, JObj([topic |-> JStr(" Quiz "), badge |-> JStr(BadgeMayNot)])>>
    /\ Len(OutTopics(normalized)) = 1
    /\ normalized # fallback
    /\ normalizeGuide(normalized, fallback) = normalized

====
